---- MODULE Spec2Model ----
(***************************************************************************)
(* FlexPool: Pentair RS-485 link layer and WiFi provisioning.              *)
(*                                                                         *)
(*   SpecCodec      the frame codec of Controller/PentairProtocol.h        *)
(*   SpecProbe      its receive helpers applied to arbitrary buffers       *)
(*   SpecTransport, SpecTransportRead   FlexPool_ESP32 RS485 write / read  *)
(*   SpecApp        FlexPool_ESP32 Application::run                        *)
(*   SpecSched, SpecTimer   the command scheduler behind MQTTHandler.h     *)
(*   SpecCommandText   MQTTHandler::handleCommand on any message text      *)
(*   SpecMqtt       MQTTHandler.h: connection and status publishing        *)
(*   SpecReasm      the stream reassembler                                 *)
(*   SpecProv, SpecProvLive   WiFi provisioning: BLESetup.h,               *)
(*                  BLESetup_recovered.h, WiFiSetup.h                      *)
(*                                                                         *)
(* C arrays are 0-indexed, TLA+ sequences 1-indexed: At(p, i) is p[i].     *)
(***************************************************************************)
EXTENDS Integers, Sequences, FiniteSets, TLC

VARIABLES
    args,       \* codec: the arguments of the pentairBuildPacket call
    buffer,     \* codec: the caller's packet buffer
    idx,        \* codec: the value pentairBuildPacket returned
    cstate,     \* codec: "input" | "built" | "altered"
    altPos,     \* codec: index of the byte altered on the wire, -1 if none
    initialized_, \* transport: RS485::initialized_
    de_re,      \* transport: level of the DE/RE pin
    tpc,        \* transport: position of the caller inside RS485
    wdata,      \* transport: data argument of the write in progress
    wret,       \* transport: value the last write returned
    uartTx,     \* transport: bytes handed to the serial port, not yet sent
    lineLog,    \* transport: bytes sent since the write began, with DE/RE
    steps,      \* transport: steps the write in progress has performed
    rlength,    \* transport: length argument of the read in progress
    rbuf,       \* transport: bytes the read has stored in the caller's buffer
    bytesRead,  \* transport: readBytes local
    now,        \* transport: millis(), counted from the start of the read
    startTime,  \* transport: readBytes local
    lastRead,   \* transport: millis() at the last byte read (or call start)
    rret,       \* transport: value the last read returned
    rxFifo,     \* transport: received bytes waiting in the serial port
    rxCount,    \* transport: bytes received from the line so far
    rxBase,     \* transport: bytes consumed before the read in progress
    apc,        \* application: "setup" | "rx" | "serial" (place in run())
    appRx,      \* application: bytes waiting in the RS-485 serial port
    rx_buffer_, \* application: Application::rx_buffer_[0 .. rxLength-1]
    packets_received_,    \* application: Statistics
    packets_transmitted_, \* application: Statistics
    errors_,    \* application: Statistics
    rxTx,       \* application: RS-485 writes of this run() for received bytes
    lastCmd,    \* application: the console command this run() handled
    cmdTx,      \* application: RS-485 writes of this run() for the command
    framesIn,   \* application: frames that have arrived from the bus
    cmdsIn,     \* application: console commands that have been typed
    busFrame,   \* application: the frame the bus delivered last
    busRest,    \* application: bytes of that frame still to arrive
    rxPackets,  \* application: what run() handed to processReceivedPacket
                \*              since that frame began to arrive
    schedState, \* scheduler: "IDLE" | "AWAITING_RESPONSE" | "RETRY"
    pending,    \* scheduler: the outstanding PendingCommand, or NoPending
    pollQueued, \* scheduler: a status poll waits for the bus
    busWrites,  \* scheduler: frames the last call wrote to the bus
    lastFrame,  \* scheduler: the frame written last
    timeoutIn,  \* scheduler: ms from the last tick to the timeout deadline
    retriesLeft, \* scheduler: retries remaining for the pending command
    sends,      \* scheduler: times the pending command has been written
    repeat,     \* scheduler: the armed external-program repeat, or NoRepeat
    idleFor,    \* scheduler: ms the bus has been idle at the last tick
    failure,    \* scheduler: the failure the last call reported, or NoFailure
    tk,         \* scheduler: what the last tick met and did, or NoTick
    mq,         \* MQTT: the message handled last, what it called, what it met
    pumpStatus, \* controller: PumpStatus pumpStatus
    remoteControlActive, \* controller: bool remoteControlActive
    connected,  \* MQTT: _mqtt.connected()
    published,  \* MQTT: the status handed to _mqtt.publish last
    rsStream,   \* reassembler: the bytes on the wire, as frame, gap, frame
    rsFed,      \* reassembler: number of bytes of the stream fed so far
    rsAcc,      \* reassembler: accumulation buffer
    rsOut,      \* reassembler: frames emitted so far
    prBuffer,   \* probe: the buffer handed to a receive helper
    prLength,   \* probe: the length argument of the call
    prOut,      \* probe: the helper called and what it returned
    flash,      \* provisioning: Preferences namespace "flexpool", key to value
    impl,       \* provisioning: the class whose provisioning routine runs
    ppc,        \* provisioning: position of the main task in the routine
    bpc,        \* provisioning: the BLE callback in progress, or NoCallback
    timedOut,   \* provisioning: millis() - startTime >= BLE_TIMEOUT_MS
    wifi,       \* provisioning: the pair given to WiFi.begin, WiFi.status()
    advertising, \* BLE: the server is advertising
    bleOn,      \* BLE: BLEDevice is initialised
    deviceConnected, \* BLE: _deviceConnected
    charSSID,   \* BLE: value of the SSID characteristic
    charPass,   \* BLE: value of the password characteristic
    charStatus, \* BLE: value of the status characteristic
    credentialsReceived, \* BLE: _credentialsReceived
    newSSID,    \* BLE: _newSSID (BLESetup.h), _receivedSSID (recovered)
    newPassword, \* BLE: _newPassword (BLESetup.h), _receivedPass (recovered)
    shouldRestart, \* _shouldRestart (recovered), shouldRestart (portal)
    scanRequested, \* BLE: _scanRequested (recovered)
    helper,     \* the static helper called last and what it returned
    saved,      \* the last save or clear of credentials since setup() or
                \* the start of the routine
    http        \* portal: the request handled last and the response to it

codecVars == <<args, buffer, idx, cstate, altPos>>
writeVars == <<de_re, wdata, wret, uartTx, lineLog, steps>>
readVars == <<rlength, rbuf, bytesRead, now, startTime, lastRead, rret, rxBase>>
rxVars == <<rxFifo, rxCount>>
transportVars == <<initialized_, tpc, writeVars, readVars, rxVars>>
busVars == <<busFrame, busRest, rxPackets>>
statVars == <<packets_received_, packets_transmitted_, errors_>>
appVars == <<apc, appRx, rx_buffer_, statVars, rxTx, lastCmd, cmdTx, framesIn,
            cmdsIn, busVars>>
timerVars == <<timeoutIn, retriesLeft, sends, repeat, idleFor, failure, tk>>
mqttVars == <<pumpStatus, remoteControlActive, connected, published>>
schedVars == <<schedState, pending, pollQueued, busWrites, lastFrame, mq,
               timerVars, mqttVars>>
streamVars == <<rsStream, rsFed, rsAcc, rsOut>>
probeVars == <<prBuffer, prLength, prOut>>
recvVars == <<streamVars, probeVars>>
bleVars == <<advertising, bleOn, deviceConnected, charSSID, charPass,
             charStatus>>
credVars == <<credentialsReceived, newSSID, newPassword, shouldRestart,
              scanRequested>>
histVars == <<helper, saved, http>>
provVars == <<flash, impl, ppc, bpc, timedOut, wifi, bleVars, credVars,
              histVars>>
linkVars == <<codecVars, transportVars, appVars, schedVars, recvVars>>
vars == <<codecVars, transportVars, appVars, schedVars, recvVars, provVars>>

----------------------------------------------------------------------------
(* Integer widths *)

UINT8_MOD == 256
UINT8_MAX == 255
UINT16_MOD == 65536

(* Bounds of the model *)

MaxDataLen == 2
MaxWriteLen == 2
MaxReadLen == 2
MaxArrivals == 2
MaxHexLen == 4
MaxFrames == 1
MaxCommands == 1
RetryLimit == 1
MaxPieces == 3
MaxProbeData == 2

----------------------------------------------------------------------------
(* PentairProtocol.h: constants *)

PENTAIR_PREAMBLE_LEN == 4
PENTAIR_PREAMBLE == <<255, 0, 255, 165>>
PKT_IDX_LEAD == 3
PKT_IDX_VER == 4
PKT_IDX_DST == 5
PKT_IDX_SRC == 6
PKT_IDX_CMD == 7
PKT_IDX_LEN == 8
PKT_IDX_DATA == 9
PENTAIR_MIN_PKT_LEN == 11
PENTAIR_VERSION == 0

ADDR_BROADCAST == 15
ADDR_MAIN_CONTROLLER_1 == 16
ADDR_REMOTE_CONTROLLER == 32
ADDR_PUMP_1 == 96

CMD_WRITE_REG == 1
CMD_CTRL == 4
CMD_MODE == 5
CMD_RUN == 6
CMD_STATUS == 7

At(packet, i) == packet[i + 1]

Min(a, b) == IF a <= b THEN a ELSE b

\* the arguments of a status query from the remote controller to pump 1
StatusQueryInput ==
    [dst |-> ADDR_PUMP_1, src |-> ADDR_REMOTE_CONTROLLER, cmd |-> CMD_STATUS,
     data |-> <<>>]

----------------------------------------------------------------------------
(* Start states of the parts of the model *)

\* no packet has been built
CodecStart ==
    /\ buffer = <<>>
    /\ idx = 0
    /\ cstate = "input"
    /\ altPos = -1

\* state of the transport after the constructor
TransportStart ==
    /\ initialized_ = FALSE
    /\ de_re = "UNCONFIGURED"
    /\ tpc = "idle"
    /\ wdata = <<>>
    /\ wret = 0
    /\ uartTx = <<>>
    /\ lineLog = <<>>
    /\ steps = <<>>
    /\ rlength = 0
    /\ rbuf = <<>>
    /\ bytesRead = 0
    /\ now = 0
    /\ startTime = 0
    /\ lastRead = 0
    /\ rret = 0
    /\ rxFifo = <<>>
    /\ rxCount = 0
    /\ rxBase = 0

\* state of the application after Application::Application
AppStart ==
    /\ apc = "setup"
    /\ appRx = <<>>
    /\ rx_buffer_ = <<>>
    /\ packets_received_ = 0
    /\ packets_transmitted_ = 0
    /\ errors_ = 0
    /\ rxTx = <<>>
    /\ lastCmd = [kind |-> "none"]
    /\ cmdTx = <<>>
    /\ framesIn = 0
    /\ cmdsIn = 0
    /\ busFrame = <<>>
    /\ busRest = <<>>
    /\ rxPackets = <<>>

NoPending == [cmd |-> -1, data |-> <<>>]
NoMq == [handled |-> FALSE]
NoPublish == [sent |-> FALSE]

\* struct PumpStatus with its default member initializers; lastUpdate is
\* 0 until a status response has been stored and 1 from then on
PumpStatusInit ==
    [valid |-> FALSE, running |-> FALSE, rpm |-> 0, watts |-> 0, gpm |-> 0,
     mode |-> 0, errCode |-> 0, drive |-> 0, timer |-> 0, hour |-> 0,
     minute |-> 0, lastUpdate |-> 0]

\* the MQTT handler after construction, the shared status before any
\* response
MqttStart ==
    /\ pumpStatus = PumpStatusInit
    /\ remoteControlActive = FALSE
    /\ connected = FALSE
    /\ published = NoPublish
NoRepeat == [armed |-> FALSE, command |-> NoPending, dueIn |-> 0]
NoFailure == [reported |-> FALSE]
NoTick == [ticked |-> FALSE]

\* state of the scheduler and of the MQTT bridge before any command
SchedStart ==
    /\ schedState = "IDLE"
    /\ pending = NoPending
    /\ pollQueued = FALSE
    /\ busWrites = 0
    /\ lastFrame = <<>>
    /\ mq = NoMq
    /\ MqttStart
    /\ timeoutIn = 0
    /\ retriesLeft = 0
    /\ sends = 0
    /\ repeat = NoRepeat
    /\ idleFor = 0
    /\ failure = NoFailure
    /\ tk = NoTick

NoStream == [f1 |-> <<>>, mid |-> <<>>, f2 |-> <<>>]

NoProbe == [op |-> "none", found |-> -1, valid |-> FALSE]

\* the reassembler before any byte
StreamStart ==
    /\ rsStream = NoStream
    /\ rsFed = 0
    /\ rsAcc = <<>>
    /\ rsOut = <<>>

\* no receive helper has been called
ProbeStart ==
    /\ prBuffer = <<>>
    /\ prLength = 0
    /\ prOut = NoProbe

\* state of the receive side before any byte
RecvStart == StreamStart /\ ProbeStart

\* Preferences: the keys the three classes use in namespace "flexpool"
FlashKeys == {"ssid", "pass", "wifi_ssid", "wifi_pass"}

\* a key that isKey() does not find
NoValue == "(absent)"

EmptyFlash == [k \in FlashKeys |-> NoValue]

NoPair == [ssid |-> NoValue, pass |-> NoValue]

NoCallback == [cb |-> "none"]

NoHelper == [fn |-> "none", class |-> "none", result |-> "none",
             began |-> FALSE]

NoRequest == [uri |-> "none", ssid |-> "", code |-> 0, stored |-> FALSE]

WiFiOff == [begun |-> NoPair, status |-> "WL_IDLE_STATUS"]

NoSave == [by |-> "none", op |-> "none", pair |-> NoPair, attempt |-> WiFiOff]

\* the device in setup(), before any provisioning routine or helper runs
ProvIdle ==
    /\ impl = "none"
    /\ ppc = "boot"
    /\ bpc = NoCallback
    /\ timedOut = FALSE
    /\ wifi = WiFiOff
    /\ advertising = FALSE
    /\ bleOn = FALSE
    /\ deviceConnected = FALSE
    /\ charSSID = ""
    /\ charPass = ""
    /\ charStatus = ""
    /\ credentialsReceived = FALSE
    /\ newSSID = ""
    /\ newPassword = ""
    /\ shouldRestart = FALSE
    /\ scanRequested = FALSE
    /\ helper = NoHelper
    /\ saved = NoSave
    /\ http = NoRequest

\* no credentials in flash, nothing provisioned
ProvStart == flash = EmptyFlash /\ ProvIdle

----------------------------------------------------------------------------
(* PentairProtocol.h: helper functions *)

RECURSIVE SumLoop_noWrap(_, _, _, _)
\* mutant: the sum is not reduced to 16 bits
SumLoop_noWrap(packet, from, to, sum) ==
    IF from >= to THEN sum
    ELSE IF to = from + 1 THEN sum + At(packet, from)
    ELSE LET mid == (from + to) \div 2
             left == SumLoop_noWrap(packet, from, mid, sum)
         IN IF left >= 0 THEN SumLoop_noWrap(packet, mid, to, left) ELSE left

RECURSIVE SumLoop(_, _, _, _)
\* for (i = from; i < to; i++) sum += packet[i];   with sum a uint16_t.
\* Addition modulo 2^16 is associative, so the loop is evaluated by halving
\* the index range; the result is the value the sequential loop leaves in sum.
SumLoop(packet, from, to, sum) ==
    IF from >= to THEN sum
    ELSE IF to = from + 1 THEN (sum + At(packet, from)) % UINT16_MOD
    ELSE LET mid == (from + to) \div 2
             left == SumLoop(packet, from, mid, sum)
         IN IF left >= 0 THEN SumLoop(packet, mid, to, left) ELSE left

\* mutant: the loop stops one byte early
pentairChecksum_shortLoop(packet, length) ==
    SumLoop(packet, PKT_IDX_LEAD, length - 3, 0)

pentairChecksum(packet, length) ==
    SumLoop(packet, PKT_IDX_LEAD, length - 2, 0)

\* mutant: a length other than 4 + 5 + LEN + 2 is rejected
pentairVerifyChecksum_checksLength(packet, length) ==
    IF length < PENTAIR_MIN_PKT_LEN THEN FALSE
    ELSE IF length # 4 + 5 + At(packet, PKT_IDX_LEN) + 2 THEN FALSE
    ELSE pentairChecksum(packet, length)
            = ((At(packet, length - 2) * 256) % UINT16_MOD)
              + At(packet, length - 1)

\* bool pentairVerifyChecksum(packet, length)
pentairVerifyChecksum(packet, length) ==
    IF length < PENTAIR_MIN_PKT_LEN THEN FALSE
    ELSE LET calculated == pentairChecksum(packet, length)
             received == ((At(packet, length - 2) * 256) % UINT16_MOD)
                         + At(packet, length - 1)
         IN calculated = received

RECURSIVE FindLoop(_, _, _)
\* for (size_t i = 0; i <= length - 4; i++) of pentairFindMessage
FindLoop(buf, i, length) ==
    IF i > length - 4 THEN -1
    ELSE IF /\ At(buf, i) = 255
            /\ At(buf, i + 1) = 0
            /\ At(buf, i + 2) = 255
            /\ At(buf, i + 3) = 165
         THEN i
         ELSE FindLoop(buf, i + 1, length)

\* mutant: no minimum length
pentairFindMessage_noMinimum(buf, length) == FindLoop(buf, 0, length)

\* int pentairFindMessage(buffer, length)
pentairFindMessage(buf, length) ==
    IF length < PENTAIR_MIN_PKT_LEN THEN -1
    ELSE FindLoop(buf, 0, length)

\* mutant: the two checksum bytes are left out of the total
pentairPacketLength_noChecksum(packetStart) ==
    4 + 1 + 1 + 1 + 1 + 1 + At(packetStart, PKT_IDX_LEN)

pentairPacketLength(packetStart) ==
    4 + 1 + 1 + 1 + 1 + 1 + At(packetStart, PKT_IDX_LEN) + 2

\* mutant: a length above 255 becomes 255
ToUint8_saturate(n) == IF n > UINT8_MAX THEN UINT8_MAX ELSE n

\* the conversion of a length to the parameter uint8_t dataLen
ToUint8(n) == n % UINT8_MOD

\* buffer[0 .. idx-1] after the preamble, header and data have been stored
BuildBody(d, s, c, dat, dataLen) ==
    <<255, 0, 255, 165, PENTAIR_VERSION, d, s, c, dataLen>>
        \o [i \in 1..dataLen |-> dat[i]]

\* mutant: the checksum loop starts at the version byte
pentairBuildPacket_sumFromVer(d, s, c, dat, dataLen) ==
    LET body == BuildBody(d, s, c, dat, dataLen)
        checksum == SumLoop(body, PKT_IDX_VER, Len(body), 0)
        buf == body \o <<(checksum \div 256) % 256, checksum % 256>>
    IN [buffer |-> buf, idx |-> Len(buf)]

\* mutant: the checksum is stored low byte first
pentairBuildPacket_littleEndian(d, s, c, dat, dataLen) ==
    LET body == BuildBody(d, s, c, dat, dataLen)
        checksum == SumLoop(body, PKT_IDX_LEAD, Len(body), 0)
        buf == body \o <<checksum % 256, (checksum \div 256) % 256>>
    IN [buffer |-> buf, idx |-> Len(buf)]

\* the buffer written and the length returned
pentairBuildPacket(d, s, c, dat, dataLen) ==
    LET body == BuildBody(d, s, c, dat, dataLen)
        checksum == SumLoop(body, PKT_IDX_LEAD, Len(body), 0)
        buf == body \o <<(checksum \div 256) % 256, checksum % 256>>
    IN [buffer |-> buf, idx |-> Len(buf)]

----------------------------------------------------------------------------
(* config.h *)

RS485_PRE_TX_DELAY_US == 10
RS485_POST_TX_DELAY_US == 10
RS485_RX_TIMEOUT_MS == 100

----------------------------------------------------------------------------
(* RS485.cpp: the half-duplex transport.  RS485Simple.h has the same        *)
(* setTransmitMode, setReceiveMode, readBytes and write, with the literals  *)
(* 10, 10 and 100 and without the initialized_ guard.                       *)

Step(op, level) == [op |-> op, de |-> level]

\* no call is in progress
Callable == tpc \in {"idle", "w_return", "r_return"}

\* bool RS485::begin(baudRate): pinMode, setReceiveMode, serial_->begin
begin ==
    /\ tpc = "idle"
    /\ ~initialized_
    /\ de_re' = "LOW"
    /\ initialized_' = TRUE
    /\ UNCHANGED <<tpc, wdata, wret, uartTx, lineLog, steps, readVars, rxVars,
                   codecVars, appVars, schedVars, recvVars, provVars>>

WriteData == UNION {[1..n -> {1, 2}] : n \in 1..MaxWriteLen}

\* size_t RS485::write(data, length): entry and guard
write ==
    /\ Callable
    /\ initialized_
    /\ \E data \in WriteData :
        /\ wdata' = data
        /\ IF ~initialized_
           THEN /\ wret' = 0
                /\ tpc' = "w_return"
           ELSE /\ wret' = wret
                /\ tpc' = "w_setTransmitMode"
    /\ lineLog' = <<>>
    /\ steps' = <<>>
    /\ UNCHANGED <<initialized_, de_re, uartTx, readVars, rxVars, codecVars, appVars, schedVars, recvVars, provVars>>

\* void RS485::setTransmitMode(): digitalWrite(HIGH); delayMicroseconds(PRE)
setTransmitMode ==
    /\ tpc = "w_setTransmitMode"
    /\ de_re' = "HIGH"
    /\ steps' = steps \o <<Step("DE_HIGH", "HIGH"),
                           [op |-> "DELAY", de |-> "HIGH",
                            us |-> RS485_PRE_TX_DELAY_US]>>
    /\ tpc' = "w_serialWrite"
    /\ UNCHANGED <<initialized_, wdata, wret, uartTx, lineLog, readVars,
                   rxVars, codecVars, appVars, schedVars, recvVars, provVars>>

\* bytesWritten = serial_->write(data, length): every byte is queued
serialWrite ==
    /\ tpc = "w_serialWrite"
    /\ uartTx' = uartTx \o wdata
    /\ wret' = Len(wdata)
    /\ steps' = Append(steps, Step("WRITE", de_re))
    /\ tpc' = "w_flush"
    /\ UNCHANGED <<initialized_, de_re, wdata, lineLog, readVars, rxVars,
                   codecVars, appVars, schedVars, recvVars, provVars>>

\* mutant: flush returns without waiting for the transmitter
FlushReturns_noWait(tx) == TRUE

\* serial_->flush() returns once the transmit buffer is drained
FlushReturns(tx) == tx = <<>>

serialFlush ==
    /\ tpc = "w_flush"
    /\ FlushReturns(uartTx)
    /\ steps' = Append(steps, Step("FLUSH", de_re))
    /\ tpc' = "w_setReceiveMode"
    /\ UNCHANGED <<initialized_, de_re, wdata, wret, uartTx, lineLog,
                   readVars, rxVars, codecVars, appVars, schedVars, recvVars, provVars>>

\* void RS485::setReceiveMode(): delayMicroseconds(POST); digitalWrite(LOW)
setReceiveMode ==
    /\ tpc = "w_setReceiveMode"
    /\ de_re' = "LOW"
    /\ steps' = steps \o <<[op |-> "DELAY", de |-> de_re,
                            us |-> RS485_POST_TX_DELAY_US],
                           Step("DE_LOW", "LOW")>>
    /\ tpc' = "w_return"
    /\ UNCHANGED <<initialized_, wdata, wret, uartTx, lineLog, readVars,
                   rxVars, codecVars, appVars, schedVars, recvVars, provVars>>

\* the UART shifts the next queued byte onto the line
UartShift ==
    /\ uartTx # <<>>
    /\ lineLog' = Append(lineLog, [byte |-> Head(uartTx), de |-> de_re])
    /\ uartTx' = Tail(uartTx)
    /\ UNCHANGED <<initialized_, de_re, tpc, wdata, wret, steps, readVars,
                   rxVars, codecVars, appVars, schedVars, recvVars, provVars>>

\* a byte arrives from the line; the k-th byte to arrive has the value k
RxArrive ==
    /\ initialized_
    /\ rxCount < MaxArrivals
    /\ rxFifo' = Append(rxFifo, rxCount + 1)
    /\ rxCount' = rxCount + 1
    /\ UNCHANGED <<initialized_, tpc, writeVars, readVars, codecVars, appVars, schedVars, recvVars, provVars>>

\* size_t RS485::readBytes(buffer, length): entry, guard, locals
readBytes ==
    /\ Callable
    /\ initialized_
    /\ \E length \in 0..MaxReadLen : rlength' = length
    /\ rbuf' = <<>>
    /\ bytesRead' = 0
    /\ now' = 0
    /\ startTime' = 0
    /\ lastRead' = 0
    /\ rxBase' = rxCount - Len(rxFifo)
    /\ IF ~initialized_
       THEN /\ rret' = 0
            /\ tpc' = "r_return"
       ELSE /\ rret' = rret
            /\ tpc' = "r_loop"
    /\ UNCHANGED <<initialized_, writeVars, rxVars, codecVars, appVars, schedVars, recvVars, provVars>>

\* mutant: the comparison with the timeout is <=
ReadLoopCond_le(n, length, t, start) ==
    n < length /\ t - start <= RS485_RX_TIMEOUT_MS

\* bytesRead < length && (millis() - startTime < RS485_RX_TIMEOUT_MS)
ReadLoopCond(n, length, t, start) ==
    n < length /\ t - start < RS485_RX_TIMEOUT_MS

\* mutant: the byte is stored in front of those already read
StoreByte_front(buf, n, b) == <<b>> \o buf

\* buffer[bytesRead] = b
StoreByte(buf, n, b) ==
    IF n < Len(buf) THEN [buf EXCEPT ![n + 1] = b]
    ELSE buf \o [i \in 1..(n - Len(buf)) |-> 0] \o <<b>>

\* one iteration of the while loop; the delayMicroseconds(100) that ends it
\* may or may not take millis() to the next millisecond
readLoop ==
    /\ tpc = "r_loop"
    /\ ReadLoopCond(bytesRead, rlength, now, startTime)
    /\ IF rxFifo # <<>>
       THEN /\ rbuf' = StoreByte(rbuf, bytesRead, Head(rxFifo))
            /\ bytesRead' = bytesRead + 1
            /\ rxFifo' = Tail(rxFifo)
            /\ startTime' = now
            /\ lastRead' = now
       ELSE UNCHANGED <<rbuf, bytesRead, rxFifo, startTime, lastRead>>
    /\ \E d \in {0, 1} : now' = now + d
    /\ UNCHANGED <<initialized_, tpc, writeVars, rlength, rret, rxBase,
                   rxCount, codecVars, appVars, schedVars, recvVars, provVars>>

\* the loop condition fails: return bytesRead
readReturn ==
    /\ tpc = "r_loop"
    /\ ~ReadLoopCond(bytesRead, rlength, now, startTime)
    /\ rret' = bytesRead
    /\ tpc' = "r_return"
    /\ UNCHANGED <<initialized_, writeVars, rlength, rbuf, bytesRead, now,
                   startTime, lastRead, rxBase, rxVars, codecVars, appVars, schedVars, recvVars, provVars>>

TransportInit ==
    /\ args = StatusQueryInput
    /\ CodecStart
    /\ TransportStart
    /\ AppStart
    /\ SchedStart
    /\ RecvStart
    /\ ProvStart
    /\ AppStart

\* the caller writes
TransportNext ==
    \/ begin
    \/ write
    \/ setTransmitMode
    \/ serialWrite
    \/ serialFlush
    \/ setReceiveMode
    \/ UartShift
    \/ RxArrive

SpecTransport == TransportInit /\ [][TransportNext]_vars

\* the caller reads
TransportReadNext ==
    \/ begin
    \/ RxArrive
    \/ readBytes
    \/ readLoop
    \/ readReturn

SpecTransportRead == TransportInit /\ [][TransportReadNext]_vars

----------------------------------------------------------------------------
(* config.h: build flags.  ECHO_MODE and ENABLE_WIFI are #defined (as 0)    *)
(* and the code tests them with #ifdef.                                     *)

RS485_BUFFER_SIZE == 256
ECHO_MODE == 0
ECHO_MODE_defined == TRUE

----------------------------------------------------------------------------
(* Application.cpp, SerialCommandHandler.cpp, Statistics.cpp                *)
(* RS485::write is taken as a whole here: on the initialized transport it   *)
(* sends the bytes and returns their number.                                *)

TxBy(caller, data) == [by |-> caller, data |-> data]

\* the value rs485_.write(data, length) returns to a caller in run()
RS485_write(data, length) == length

\* what a call leaves behind: bus writes and Statistics increments
Effect(tx, transmitted, errors) ==
    [tx |-> tx, transmitted |-> transmitted, errors |-> errors]

NoEffect == Effect(<<>>, 0, 0)

\* void Application::sendRS485Data(data, length)
sendRS485Data(data, length) ==
    IF length = 0 THEN NoEffect
    ELSE IF length > RS485_BUFFER_SIZE THEN Effect(<<>>, 0, 1)
    ELSE IF RS485_write(data, length) = length
         THEN Effect(<<TxBy("Application::sendRS485Data", data)>>, 1, 0)
         ELSE Effect(<<TxBy("Application::sendRS485Data", data)>>, 0, 1)

\* void Application::processReceivedPacket(data, length)
processReceivedPacket(data, length) ==
    IF length = 0 THEN NoEffect
    ELSE IF ECHO_MODE_defined THEN sendRS485Data(data, length)
    ELSE NoEffect

\* the characters of the console's hex strings; "g" is no hex digit
HexChars == {"0", "f", "g"}

\* the value of a hex digit as strtoul reads it, -1 for any other character
DigitValue(ch) ==
    CASE ch = "0" -> 0
      [] ch = "A" -> 10
      [] ch = "f" -> 15
      [] OTHER -> -1

\* strtoul(byteStr, &endPtr, 16) on a string of two characters of HexChars:
\* the value converted and whether endPtr reached the terminating NUL
strtoul16(byteStr) ==
    LET a == DigitValue(byteStr[1])
        b == DigitValue(byteStr[2])
    IN IF a < 0 THEN [value |-> 0, atEnd |-> FALSE]
       ELSE IF b < 0 THEN [value |-> a, atEnd |-> FALSE]
       ELSE [value |-> a * 16 + b, atEnd |-> TRUE]

RECURSIVE ParseHex(_, _, _, _)
\* the for loop of handleSendCommand from i up to len: data[0 .. len-1], or
\* "invalid" as soon as a byteStr is not consumed whole.  The iterations
\* are evaluated by halving the index range; each half begins with the data
\* the half before it has stored, and is skipped after an invalid byteStr.
ParseHex(hexData, i, len, data) ==
    IF i >= len THEN [ok |-> TRUE, data |-> data]
    ELSE IF len = i + 1
    THEN LET r == strtoul16(SubSeq(hexData, i * 2 + 1, i * 2 + 2))
         IN IF ~r.atEnd THEN [ok |-> FALSE, data |-> data]
            ELSE [ok |-> TRUE, data |-> Append(data, r.value % UINT8_MOD)]
    ELSE LET mid == (i + len) \div 2
             left == ParseHex(hexData, i, mid, data)
         IN IF ~left.ok THEN left
            ELSE ParseHex(hexData, mid, len, left.data)

\* mutant: a payload that fills the buffer is refused
handleSendCommand_below256(hexData) ==
    LET len == Len(hexData) \div 2
        parsed == ParseHex(hexData, 0, len, <<>>)
    IN IF len > 0 /\ len < RS485_BUFFER_SIZE /\ parsed.ok
       THEN Effect(<<TxBy("SerialCommandHandler::handleSendCommand",
                          parsed.data)>>, 1, 0)
       ELSE NoEffect

\* mutant: every byte is sent with a write of its own
handleSendCommand_bytewise(hexData) ==
    LET len == Len(hexData) \div 2
        parsed == ParseHex(hexData, 0, len, <<>>)
    IN IF len > 0 /\ len <= RS485_BUFFER_SIZE /\ parsed.ok
       THEN Effect([i \in 1..len |->
                       TxBy("SerialCommandHandler::handleSendCommand",
                            <<parsed.data[i]>>)], 1, 0)
       ELSE NoEffect

\* void SerialCommandHandler::handleSendCommand(command), hexData being
\* command.substring(5) trimmed
handleSendCommand(hexData) ==
    LET len == Len(hexData) \div 2
        parsed == ParseHex(hexData, 0, len, <<>>)
    IN IF len > 0 /\ len <= RS485_BUFFER_SIZE
       THEN IF ~parsed.ok THEN NoEffect
            ELSE IF RS485_write(parsed.data, len) = len
                 THEN Effect(<<TxBy("SerialCommandHandler::handleSendCommand",
                                    parsed.data)>>, 1, 0)
                 ELSE Effect(<<TxBy("SerialCommandHandler::handleSendCommand",
                                    parsed.data)>>, 0, 1)
       ELSE NoEffect

\* 2n hex digits 0f f0 ff 0f ..., the bytes 15, 240, 255, 15, ...
HexDigits(n) == [i \in 1..(2 * n) |-> IF i % 3 = 1 THEN "0" ELSE "f"]

\* the longest payload the buffer takes, and one byte more
LongHex == {HexDigits(RS485_BUFFER_SIZE), HexDigits(RS485_BUFFER_SIZE + 1)}

\* the console lines: "send:" followed by characters, "reset", "help",
\* another word, the empty line
Commands ==
    {[kind |-> "send", hex |-> h] :
        h \in UNION {[1..n -> HexChars] : n \in 0..MaxHexLen} \cup LongHex}
    \cup {[kind |-> k] : k \in {"reset", "help", "other", "empty"}}

\* frames other devices put on the bus
BusFrames ==
    {pentairBuildPacket(a[1], a[2], CMD_STATUS, <<>>, 0).buffer :
        a \in {<<ADDR_BROADCAST, ADDR_PUMP_1>>,
               <<ADDR_MAIN_CONTROLLER_1, ADDR_PUMP_1>>,
               <<ADDR_REMOTE_CONTROLLER, ADDR_PUMP_1>>,
               <<ADDR_REMOTE_CONTROLLER, ADDR_MAIN_CONTROLLER_1>>}}

\* bool Application::initialize(): rs485_.begin succeeds
initialize ==
    /\ apc = "setup"
    /\ apc' = "rx"
    /\ UNCHANGED <<appRx, rx_buffer_, statVars, rxTx, lastCmd, cmdTx, framesIn,
                   cmdsIn, busVars, codecVars, transportVars, schedVars, recvVars, provVars>>

\* where the sender may pause inside a frame of n bytes, a pause longer
\* than the receive timeout ending the read: after the marker, or not at all
SplitPoints(n) == {PENTAIR_PREAMBLE_LEN, n}

\* a frame, or its first k bytes, arrives from the bus while the port is
\* empty
BusReceive ==
    /\ apc # "setup"
    /\ appRx = <<>>
    /\ busRest = <<>>
    /\ framesIn < MaxFrames
    /\ \E f \in BusFrames : \E k \in SplitPoints(Len(f)) :
        /\ busFrame' = f
        /\ appRx' = SubSeq(f, 1, k)
        /\ busRest' = SubSeq(f, k + 1, Len(f))
    /\ rxPackets' = <<>>
    /\ framesIn' = framesIn + 1
    /\ UNCHANGED <<apc, rx_buffer_, statVars, rxTx, lastCmd, cmdTx, cmdsIn,
                   codecVars, transportVars, schedVars, recvVars, provVars>>

\* the rest of the frame arrives
BusReceiveRest ==
    /\ apc # "setup"
    /\ busRest # <<>>
    /\ appRx' = appRx \o busRest
    /\ busRest' = <<>>
    /\ UNCHANGED <<apc, rx_buffer_, statVars, rxTx, lastCmd, cmdTx, framesIn,
                   cmdsIn, busFrame, rxPackets, codecVars, transportVars,
                   schedVars, recvVars, provVars>>

\* mutant: the bytes read are appended to those of the read before
ReadInto_append(buf, port, rxLength) == buf \o SubSeq(port, 1, rxLength)

\* rs485_.readBytes(rx_buffer_, RS485_BUFFER_SIZE): the bytes read are stored
\* from rx_buffer_[0] on
ReadInto(buf, port, rxLength) == SubSeq(port, 1, rxLength)

\* Application::run(), first part: incoming RS-485 data
runReceive ==
    /\ apc = "rx"
    /\ IF appRx # <<>>
       THEN LET rxLength == Min(Len(appRx), RS485_BUFFER_SIZE)
                data == ReadInto(rx_buffer_, appRx, rxLength)
                e == processReceivedPacket(data, Len(data))
            IN /\ rx_buffer_' = data
               /\ appRx' = SubSeq(appRx, rxLength + 1, Len(appRx))
               /\ packets_received_' = packets_received_ + 1
               /\ packets_transmitted_' = packets_transmitted_ + e.transmitted
               /\ errors_' = errors_ + e.errors
               /\ rxTx' = e.tx
               /\ rxPackets' = Append(rxPackets, data)
       ELSE /\ rxTx' = <<>>
            /\ UNCHANGED <<rx_buffer_, appRx, statVars, rxPackets>>
    /\ lastCmd' = [kind |-> "none"]
    /\ cmdTx' = <<>>
    /\ apc' = "serial"
    /\ UNCHANGED <<framesIn, cmdsIn, busFrame, busRest, codecVars,
                   transportVars, schedVars, recvVars, provVars>>

\* void SerialCommandHandler::processCommand(command)
processCommand(command) ==
    IF command.kind = "empty" THEN [e |-> NoEffect, reset |-> FALSE]
    ELSE IF command.kind = "send"
         THEN [e |-> handleSendCommand(command.hex), reset |-> FALSE]
    ELSE IF command.kind = "reset" THEN [e |-> NoEffect, reset |-> TRUE]
    ELSE [e |-> NoEffect, reset |-> FALSE]

\* Application::run(), second part: a line from the console, if there is one
runSerial ==
    /\ apc = "serial"
    /\ \/ /\ cmdsIn < MaxCommands
          /\ \E command \in Commands :
                LET r == processCommand(command)
                IN /\ lastCmd' = command
                   /\ cmdTx' = r.e.tx
                   /\ IF r.reset
                      THEN /\ packets_received_' = 0
                           /\ packets_transmitted_' = 0
                           /\ errors_' = 0
                      ELSE /\ packets_received_' = packets_received_
                           /\ packets_transmitted_' =
                                packets_transmitted_ + r.e.transmitted
                           /\ errors_' = errors_ + r.e.errors
          /\ cmdsIn' = cmdsIn + 1
       \/ /\ lastCmd' = [kind |-> "none"]
          /\ cmdTx' = <<>>
          /\ UNCHANGED <<statVars, cmdsIn>>
    /\ apc' = "rx"
    /\ UNCHANGED <<appRx, rx_buffer_, rxTx, framesIn, busVars, codecVars,
                   transportVars, schedVars, recvVars, provVars>>

AppInit ==
    /\ args = StatusQueryInput
    /\ CodecStart
    /\ TransportStart
    /\ AppStart
    /\ SchedStart
    /\ RecvStart
    /\ ProvStart

AppNext ==
    \/ initialize
    \/ BusReceive
    \/ BusReceiveRest
    \/ runReceive
    \/ runSerial

SpecApp == AppInit /\ [][AppNext]_vars

----------------------------------------------------------------------------
(* PentairProtocol.h: command payloads *)

CTRL_REMOTE == 255
CTRL_LOCAL == 0
RUN_START == 10
RUN_STOP == 4
REG_SET_RPM == 708
REG_EXT_PROG == 801
EPRG_OFF == 0
EPRG_1 == 8
EPRG_2 == 16
EPRG_3 == 24
EPRG_4 == 32
MODE_EXT_PROG_1 == 9
MODE_EXT_PROG_4 == 12

----------------------------------------------------------------------------
(* PentairProtocol.h: timing constants, in ms *)

EXT_PROG_REPEAT_INTERVAL == 30000
CMD_RESPONSE_TIMEOUT == 2000
STATUS_QUERY_INTERVAL == 15000

----------------------------------------------------------------------------
(* MQTTHandler.h: the command messages and their dispatch *)

STAT_DATA_LEN == 15
MqttEnabled == TRUE
RPM_MIN == 450
RPM_MAX == 3450

Str(v) == [t |-> "str", v |-> v]
Num(v) == [t |-> "num", v |-> v]
Colon == [t |-> "colon"]
Comma == [t |-> "comma"]
\* text that is neither a quoted string nor a plain run of digits, as its
\* characters
Raw(chars) == [t |-> "raw", v |-> chars]

\* {"cmd":c}
CmdMsg(c) == <<Str("cmd"), Colon, Str(c)>>
\* {"cmd":c,key:v}
CmdMsgWith(c, key, v) == <<Str("cmd"), Colon, Str(c), Comma, Str(key), Colon, Num(v)>>

RpmSample == {RPM_MIN - 1, RPM_MIN, RPM_MAX, RPM_MAX + 1}

\* {"cmd":c,key:text}
CmdMsgText(c, key, tok) ==
    <<Str("cmd"), Colon, Str(c), Comma, Str(key), Colon, tok>>

\* values that are not plain integers: a fraction above the range, digits
\* followed by letters, letters, nothing, a negative number, 2^32 + 2000, a
\* number in quotes
ValueSample ==
    {Raw(<<"3", "4", "5", "0", ".", "9">>),
     Raw(<<"2", "0", "0", "0", "a", "b", "c">>),
     Raw(<<"a", "b", "c">>),
     Raw(<<>>),
     Raw(<<"-", "4", "5", "0">>),
     Raw(<<"4", "2", "9", "4", "9", "6", "9", "2", "9", "6">>),
     Str("2000")}

\* what WebUI.h publishes, with rpm values around the accepted range, and
\* messages that carry no known command or no value
MqttMessages ==
    {CmdMsg(c) : c \in {"fullstop", "start", "stop", "remote", "local",
                        "query", "fullstart", "rpm", "status"}}
    \cup {CmdMsgWith("fullstart", "rpm", v) : v \in RpmSample}
    \cup {CmdMsgWith("rpm", "value", v) : v \in RpmSample}

\* any text on the command topic: the messages above and the fullstart and
\* rpm messages with the values of ValueSample
CommandTexts ==
    MqttMessages
    \cup {CmdMsgText("fullstart", "rpm", tok) : tok \in ValueSample}
    \cup {CmdMsgText("rpm", "value", tok) : tok \in ValueSample}

\* msg.indexOf("\"word\""): index of the first string token equal to word,
\* -1 if there is none
IndexOfStr(msg, word) ==
    LET hits == {i \in DOMAIN msg : msg[i] = Str(word)}
    IN IF hits = {} THEN -1
       ELSE (CHOOSE i \in hits : \A j \in hits : i <= j) - 1

LONG_MAX == 2147483647

isspace(ch) == ch \in {" ", "\t", "\n", "\r"}

isdigit(ch) == ch \in {"0", "1", "2", "3", "4", "5", "6", "7", "8", "9"}

DecimalValue(ch) ==
    CASE ch = "0" -> 0 [] ch = "1" -> 1 [] ch = "2" -> 2 [] ch = "3" -> 3
      [] ch = "4" -> 4 [] ch = "5" -> 5 [] ch = "6" -> 6 [] ch = "7" -> 7
      [] ch = "8" -> 8 [] ch = "9" -> 9

\* strtol: the digits from position i on; over when their value exceeds
\* LONG_MAX
RECURSIVE Magnitude(_, _, _)
Magnitude(chars, i, acc) ==
    IF i > Len(chars) \/ ~isdigit(chars[i]) THEN [v |-> acc, over |-> FALSE]
    ELSE LET d == DecimalValue(chars[i])
         IN IF acc > (LONG_MAX - d) \div 10
            THEN [v |-> LONG_MAX, over |-> TRUE]
            ELSE Magnitude(chars, i + 1, acc * 10 + d)

RECURSIVE SkipSpace(_, _)
SkipSpace(chars, i) ==
    IF i <= Len(chars) /\ isspace(chars[i]) THEN SkipSpace(chars, i + 1)
    ELSE i

\* String::toInt, that is atol: blanks, an optional sign, then the leading
\* digits; 0 when there are none; what follows the digits is ignored; out of
\* the range of long the result is LONG_MAX or LONG_MIN
toInt(chars) ==
    LET i == SkipSpace(chars, 1)
        signed == i <= Len(chars) /\ chars[i] \in {"-", "+"}
        negative == signed /\ chars[i] = "-"
        mag == Magnitude(chars, IF signed THEN i + 1 ELSE i, 0)
    IN IF ~negative THEN mag.v
       ELSE IF mag.over THEN (0 - LONG_MAX) - 1
       ELSE 0 - mag.v

\* int MQTTHandler::extractInt(json, key)
extractInt(json, key) ==
    LET k == IndexOfStr(json, key)
        colons == {i \in DOMAIN json : i - 1 >= k /\ json[i] = Colon}
    IN IF k < 0 THEN 0
       ELSE IF colons = {} THEN 0
       ELSE LET c == CHOOSE i \in colons : \A j \in colons : i <= j
            IN IF c + 1 \in DOMAIN json /\ json[c + 1].t = "num"
               THEN json[c + 1].v
               ELSE IF c + 1 \in DOMAIN json /\ json[c + 1].t = "raw"
               THEN toInt(json[c + 1].v)
               ELSE 0

Call(fn, arg) == [fn |-> fn, arg |-> arg]
NoCall == Call("none", 0)

\* mutant: the "rpm" branch comes first in the chain
Dispatch_rpmFirst(msg) ==
    IF IndexOfStr(msg, "rpm") >= 0
    THEN LET rpm == extractInt(msg, "value")
         IN IF rpm >= RPM_MIN /\ rpm <= RPM_MAX
            THEN Call("sendSetRPM", rpm) ELSE NoCall
    ELSE IF IndexOfStr(msg, "fullstart") >= 0
    THEN LET rpm == extractInt(msg, "rpm")
         IN IF rpm >= RPM_MIN /\ rpm <= RPM_MAX
            THEN Call("runFullSpeedSequence", rpm) ELSE NoCall
    ELSE IF IndexOfStr(msg, "fullstop") >= 0 THEN Call("runFullStopSequence", 0)
    ELSE IF IndexOfStr(msg, "start") >= 0 THEN Call("sendRunPump", 1)
    ELSE IF IndexOfStr(msg, "stop") >= 0 THEN Call("sendRunPump", 0)
    ELSE IF IndexOfStr(msg, "remote") >= 0 THEN Call("sendRemoteControl", 0)
    ELSE IF IndexOfStr(msg, "local") >= 0 THEN Call("sendLocalControl", 0)
    ELSE IF IndexOfStr(msg, "query") >= 0 THEN Call("sendStatusQuery", 0)
    ELSE NoCall

\* mutant: the chain without the tests of the rpm range
Dispatch_anyRpm(msg) ==
    IF IndexOfStr(msg, "fullstart") >= 0
    THEN Call("runFullSpeedSequence", extractInt(msg, "rpm"))
    ELSE IF IndexOfStr(msg, "fullstop") >= 0 THEN Call("runFullStopSequence", 0)
    ELSE IF IndexOfStr(msg, "start") >= 0 THEN Call("sendRunPump", 1)
    ELSE IF IndexOfStr(msg, "stop") >= 0 THEN Call("sendRunPump", 0)
    ELSE IF IndexOfStr(msg, "rpm") >= 0
    THEN Call("sendSetRPM", extractInt(msg, "value"))
    ELSE IF IndexOfStr(msg, "remote") >= 0 THEN Call("sendRemoteControl", 0)
    ELSE IF IndexOfStr(msg, "local") >= 0 THEN Call("sendLocalControl", 0)
    ELSE IF IndexOfStr(msg, "query") >= 0 THEN Call("sendStatusQuery", 0)
    ELSE NoCall

\* the if / else-if chain of MQTTHandler::handleCommand: the controller
\* function the message invokes
Dispatch(msg) ==
    IF IndexOfStr(msg, "fullstart") >= 0
    THEN LET rpm == extractInt(msg, "rpm")
         IN IF rpm >= RPM_MIN /\ rpm <= RPM_MAX
            THEN Call("runFullSpeedSequence", rpm) ELSE NoCall
    ELSE IF IndexOfStr(msg, "fullstop") >= 0 THEN Call("runFullStopSequence", 0)
    ELSE IF IndexOfStr(msg, "start") >= 0 THEN Call("sendRunPump", 1)
    ELSE IF IndexOfStr(msg, "stop") >= 0 THEN Call("sendRunPump", 0)
    ELSE IF IndexOfStr(msg, "rpm") >= 0
    THEN LET rpm == extractInt(msg, "value")
         IN IF rpm >= RPM_MIN /\ rpm <= RPM_MAX
            THEN Call("sendSetRPM", rpm) ELSE NoCall
    ELSE IF IndexOfStr(msg, "remote") >= 0 THEN Call("sendRemoteControl", 0)
    ELSE IF IndexOfStr(msg, "local") >= 0 THEN Call("sendLocalControl", 0)
    ELSE IF IndexOfStr(msg, "query") >= 0 THEN Call("sendStatusQuery", 0)
    ELSE NoCall

\* the JSON publishStatus builds from pumpStatus and remoteControlActive
StatusJson(ps, remote) ==
    [running |-> ps.running, rpm |-> ps.rpm, watts |-> ps.watts,
     gpm |-> ps.gpm, mode |-> ps.mode, error |-> ps.errCode,
     remote |-> remote, valid |-> ps.valid]

\* what _mqtt.publish has been handed last, after a call of publishStatus
Published(isConnected, ps, remote, last) ==
    IF ~isConnected THEN last
    ELSE [sent |-> TRUE, json |-> StatusJson(ps, remote)]

----------------------------------------------------------------------------
(* The command scheduler behind the controller functions that              *)
(* MQTTHandler.h declares.  Their definitions (Controller.ino) are not     *)
(* among the sources; the scheduler follows sections 4.4 and 6 of the      *)
(* specification.                                                          *)

Command(c, data) == [cmd |-> c, data |-> data]

\* the scheduler's view during a call: state, pending command, queued
\* poll, frames written, last frame, results of the submits made
SchedView(st, pend, poll, writes, frame, results) ==
    [state |-> st, pending |-> pend, poll |-> poll, writes |-> writes,
     frame |-> frame, results |-> results]

\* mutant: submit dispatches without looking at the state
submit_noBusyCheck(v, command) ==
    SchedView("AWAITING_RESPONSE", command, v.poll, v.writes + 1,
              pentairBuildPacket(ADDR_PUMP_1, ADDR_REMOTE_CONTROLLER,
                                 command.cmd, command.data,
                                 Len(command.data)).buffer,
              Append(v.results, "accepted"))

\* submit(commandKind, payload) -> accepted | Busy; a poll request queues
submit(v, command) ==
    IF v.state = "IDLE"
    THEN SchedView("AWAITING_RESPONSE", command, v.poll, v.writes + 1,
                   pentairBuildPacket(ADDR_PUMP_1, ADDR_REMOTE_CONTROLLER,
                                      command.cmd, command.data,
                                      Len(command.data)).buffer,
                   Append(v.results, "accepted"))
    ELSE IF command.cmd = CMD_STATUS
    THEN SchedView(v.state, v.pending, TRUE, v.writes, v.frame,
                   Append(v.results, "queued"))
    ELSE SchedView(v.state, v.pending, v.poll, v.writes, v.frame,
                   Append(v.results, "Busy"))

\* data = [regHi, regLo, valHi, valLo]
WriteRegData(reg, val) ==
    <<reg \div 256, reg % 256, val \div 256, val % 256>>

\* the commands a controller function submits, in order
CommandsOf(call) ==
    CASE call.fn = "sendRemoteControl" -> <<Command(CMD_CTRL, <<CTRL_REMOTE>>)>>
      [] call.fn = "sendLocalControl" -> <<Command(CMD_CTRL, <<CTRL_LOCAL>>)>>
      [] call.fn = "sendRunPump" ->
            <<Command(CMD_RUN, IF call.arg = 1 THEN <<RUN_START>>
                               ELSE <<RUN_STOP>>)>>
      [] call.fn = "sendStatusQuery" -> <<Command(CMD_STATUS, <<>>)>>
      [] call.fn = "sendSetRPM" ->
            <<Command(CMD_WRITE_REG, WriteRegData(REG_SET_RPM, call.arg))>>
      [] call.fn = "runFullSpeedSequence" ->
            <<Command(CMD_CTRL, <<CTRL_REMOTE>>),
              Command(CMD_WRITE_REG, WriteRegData(REG_SET_RPM, call.arg)),
              Command(CMD_RUN, <<RUN_START>>)>>
      [] call.fn = "runFullStopSequence" ->
            <<Command(CMD_RUN, <<RUN_STOP>>),
              Command(CMD_CTRL, <<CTRL_LOCAL>>)>>
      [] OTHER -> <<>>

RECURSIVE SubmitAll(_, _)
SubmitAll(v, commands) ==
    IF commands = <<>> THEN v
    ELSE SubmitAll(submit(v, Head(commands)), Tail(commands))

\* the frame that carries a command to the pump
Encode(command) ==
    pentairBuildPacket(ADDR_PUMP_1, ADDR_REMOTE_CONTROLLER, command.cmd,
                       command.data, Len(command.data)).buffer

\* a command selecting an external-program mode
SelectsExtProgram(command) ==
    \/ /\ command.cmd = CMD_WRITE_REG
       /\ command.data \in {WriteRegData(REG_EXT_PROG, v) :
                               v \in {EPRG_1, EPRG_2, EPRG_3, EPRG_4}}
    \/ /\ command.cmd = CMD_MODE
       /\ command.data \in {<<mode>> : mode \in MODE_EXT_PROG_1..MODE_EXT_PROG_4}

\* a command changing the mode away from an external program
ChangesModeAway(command) ==
    \/ command = Command(CMD_WRITE_REG, WriteRegData(REG_EXT_PROG, EPRG_OFF))
    \/ /\ command.cmd = CMD_MODE
       /\ ~SelectsExtProgram(command)

\* the view of the scheduler at the start of a call
CurrentView ==
    SchedView(schedState, pending, pollQueued, 0, lastFrame, <<>>)

\* the call wrote a new command to the bus
Accepted(after) == after.writes > 0

\* the state a call leaves once it has run its submits: an accepted command
\* gets its timeout deadline and its retries
AfterSubmits(after) ==
    /\ schedState' = after.state
    /\ pending' = after.pending
    /\ pollQueued' = after.poll
    /\ busWrites' = after.writes
    /\ lastFrame' = after.frame
    /\ timeoutIn' = IF Accepted(after) THEN CMD_RESPONSE_TIMEOUT
                    ELSE timeoutIn
    /\ retriesLeft' = IF Accepted(after) THEN RetryLimit ELSE retriesLeft
    /\ sends' = IF Accepted(after) THEN 1 ELSE sends
    /\ idleFor' = IF Accepted(after) THEN 0 ELSE idleFor
    /\ repeat' = IF Accepted(after) /\ ChangesModeAway(after.pending)
                 THEN NoRepeat ELSE repeat
    /\ failure' = NoFailure
    /\ tk' = NoTick

\* void MQTTHandler::handleCommand(payload, length), called from _mqtt.loop()
\* the controller function the message selects, then publishStatus()
handleCommand ==
    /\ \E msg \in MqttMessages :
        LET call == Dispatch(msg)
            before == CurrentView
            after == SubmitAll(before, CommandsOf(call))
        IN /\ AfterSubmits(after)
           /\ mq' = [handled |-> TRUE, msg |-> msg, call |-> call,
                     before |-> before, results |-> after.results]
    /\ published' = Published(connected, pumpStatus, remoteControlActive,
                              published)
    /\ UNCHANGED <<pumpStatus, remoteControlActive, connected, codecVars,
                   transportVars, appVars, recvVars, provVars>>

\* handleCommand for any text that arrives on the command topic
handleCommand_anyText ==
    /\ \E msg \in CommandTexts :
        LET call == Dispatch(msg)
            before == CurrentView
            after == SubmitAll(before, CommandsOf(call))
        IN /\ AfterSubmits(after)
           /\ mq' = [handled |-> TRUE, msg |-> msg, call |-> call,
                     before |-> before, results |-> after.results]
    /\ published' = Published(connected, pumpStatus, remoteControlActive,
                              published)
    /\ UNCHANGED <<pumpStatus, remoteControlActive, connected, codecVars,
                   transportVars, appVars, recvVars, provVars>>

\* commands a collaborator submits: external program 1, external programs
\* off, a speed, a status query
DirectCommands ==
    {Command(CMD_WRITE_REG, WriteRegData(REG_EXT_PROG, EPRG_1)),
     Command(CMD_WRITE_REG, WriteRegData(REG_EXT_PROG, EPRG_OFF)),
     Command(CMD_WRITE_REG, WriteRegData(REG_SET_RPM, RPM_MIN)),
     Command(CMD_STATUS, <<>>)}

\* submitCommand(kind, parameters) of the collaborator-facing API
submitCommand ==
    /\ \E command \in DirectCommands :
        AfterSubmits(submit(CurrentView, command))
    /\ mq' = NoMq
    /\ UNCHANGED <<mqttVars, codecVars, transportVars, appVars, recvVars, provVars>>

\* 15 data bytes of a status response: stopped at speed 0, running at
\* 1500 RPM and 300 W
StatusSample ==
    {<<RUN_STOP, 0, 0, 0, 0, 0, 0, 0, 0, 0, 0, 0, 0, 12, 30>>,
     <<RUN_START, 1, 2, 1, 44, 5, 220, 30, 0, 0, 0, 0, 0, 12, 31>>}

\* frames seen on the bus: the pump's reply to the pending command, the
\* same reply addressed to a main controller, status responses
ReplyFrames ==
    {pentairBuildPacket(d, ADDR_PUMP_1, pending.cmd, pending.data,
                        Len(pending.data)).buffer :
        d \in {ADDR_REMOTE_CONTROLLER, ADDR_MAIN_CONTROLLER_1}}
    \cup
    {pentairBuildPacket(d, ADDR_PUMP_1, CMD_STATUS, x, Len(x)).buffer :
        d \in {ADDR_REMOTE_CONTROLLER, ADDR_MAIN_CONTROLLER_1},
        x \in StatusSample}

\* a verified status response of the configured pump to this controller
IsStatusResponse(f) ==
    /\ At(f, PKT_IDX_DST) \in {ADDR_REMOTE_CONTROLLER, ADDR_BROADCAST}
    /\ At(f, PKT_IDX_SRC) = ADDR_PUMP_1
    /\ At(f, PKT_IDX_CMD) = CMD_STATUS
    /\ At(f, PKT_IDX_LEN) = STAT_DATA_LEN
    /\ pentairVerifyChecksum(f, Len(f))

\* the status the 15 data bytes of a status response carry: run, mode,
\* drive, power, speed, flow, ppc, reserved, error, reserved, timer, clock
DecodeStatus(f) ==
    LET d(i) == At(f, PKT_IDX_DATA + i)
    IN [valid |-> TRUE, running |-> d(0) = RUN_START,
        rpm |-> d(5) * 256 + d(6), watts |-> d(3) * 256 + d(4),
        gpm |-> d(7), mode |-> d(1), errCode |-> d(10), drive |-> d(2),
        timer |-> d(12), hour |-> d(13), minute |-> d(14), lastUpdate |-> 1]

\* the timer armed when a command selecting an external program succeeds
ArmRepeat(rep, command) ==
    IF ~SelectsExtProgram(command) THEN rep
    ELSE IF rep.armed /\ rep.command = command THEN rep
    ELSE [armed |-> TRUE, command |-> command,
          dueIn |-> EXT_PROG_REPEAT_INTERVAL]

\* onFrameReceived(Frame): a frame for this controller that answers the
\* pending command resolves it
onFrameReceived ==
    /\ schedState \in {"AWAITING_RESPONSE", "RETRY"}
    /\ \E f \in ReplyFrames :
        /\ IF /\ At(f, PKT_IDX_DST) \in {ADDR_REMOTE_CONTROLLER, ADDR_BROADCAST}
              /\ At(f, PKT_IDX_SRC) = ADDR_PUMP_1
              /\ At(f, PKT_IDX_CMD) = pending.cmd
           THEN /\ schedState' = "IDLE"
                /\ pending' = NoPending
                /\ repeat' = ArmRepeat(repeat, pending)
           ELSE UNCHANGED <<schedState, pending, repeat>>
        /\ pumpStatus' = IF IsStatusResponse(f) THEN DecodeStatus(f)
                         ELSE pumpStatus
    /\ busWrites' = 0
    /\ failure' = NoFailure
    /\ mq' = NoMq
    /\ tk' = NoTick
    /\ UNCHANGED <<pollQueued, lastFrame, timeoutIn, retriesLeft, sends,
                   idleFor, remoteControlActive, connected, published,
                   codecVars, transportVars, appVars, recvVars, provVars>>

\* mutant: a timeout fails the command at once
TickDecision_failAtOnce(st, expired, retries, repeatDue, pollDue) ==
    CASE st # "IDLE" /\ expired -> "failed"
      [] st = "IDLE" /\ repeatDue -> "repeat"
      [] st = "IDLE" /\ pollDue -> "poll"
      [] OTHER -> "none"

\* mutant: a due poll goes before a due repeat
TickDecision_pollFirst(st, expired, retries, repeatDue, pollDue) ==
    CASE st # "IDLE" /\ expired /\ retries > 0 -> "retry"
      [] st # "IDLE" /\ expired /\ retries = 0 -> "failed"
      [] st = "IDLE" /\ pollDue -> "poll"
      [] st = "IDLE" /\ repeatDue -> "repeat"
      [] OTHER -> "none"

\* what tick(now) does: timeout and retry of the pending command, else the
\* external-program repeat, else the status poll
TickDecision(st, expired, retries, repeatDue, pollDue) ==
    CASE st # "IDLE" /\ expired /\ retries > 0 -> "retry"
      [] st # "IDLE" /\ expired /\ retries = 0 -> "failed"
      [] st = "IDLE" /\ repeatDue -> "repeat"
      [] st = "IDLE" /\ pollDue -> "poll"
      [] OTHER -> "none"

\* time between two ticks: the control loop's cadence, or a pause as long
\* as one of the intervals
TickSteps == {CMD_RESPONSE_TIMEOUT \div 2, STATUS_QUERY_INTERVAL,
              EXT_PROG_REPEAT_INTERVAL}

\* a - b, not below 0
Monus(a, b) == IF a >= b THEN a - b ELSE 0

\* tick(now), now being d ms after the last tick
tick ==
    /\ \E d \in TickSteps :
        LET expired == d >= timeoutIn
            repeatDue == repeat.armed /\ d >= repeat.dueIn
            idle == IF schedState = "IDLE"
                    THEN Min(idleFor + d, STATUS_QUERY_INTERVAL) ELSE 0
            pollDue == pollQueued \/ (schedState = "IDLE"
                                      /\ idle >= STATUS_QUERY_INTERVAL)
            what == TickDecision(schedState, expired, retriesLeft, repeatDue,
                                 pollDue)
            issued == IF what = "repeat" THEN repeat.command
                      ELSE IF what = "poll" THEN Command(CMD_STATUS, <<>>)
                      ELSE pending
            writes == what \in {"retry", "repeat", "poll"}
        IN /\ tk' = [ticked |-> TRUE, d |-> d, what |-> what,
                     before |-> CurrentView, timeoutIn |-> timeoutIn,
                     retries |-> retriesLeft, sends |-> sends,
                     repeat |-> repeat, pollDue |-> pollDue]
           /\ schedState' = CASE what = "retry" -> "RETRY"
                              [] what = "failed" -> "IDLE"
                              [] what \in {"repeat", "poll"} -> "AWAITING_RESPONSE"
                              [] OTHER -> schedState
           /\ pending' = IF what = "failed" THEN NoPending ELSE issued
           /\ busWrites' = IF writes THEN 1 ELSE 0
           /\ lastFrame' = IF writes THEN Encode(issued) ELSE lastFrame
           /\ timeoutIn' = IF writes THEN CMD_RESPONSE_TIMEOUT
                           ELSE Monus(timeoutIn, d)
           /\ retriesLeft' = CASE what = "retry" -> retriesLeft - 1
                               [] what \in {"repeat", "poll"} -> RetryLimit
                               [] OTHER -> retriesLeft
           /\ sends' = CASE what = "retry" -> sends + 1
                         [] what \in {"repeat", "poll"} -> 1
                         [] OTHER -> sends
           /\ repeat' = IF what = "repeat"
                        THEN [repeat EXCEPT !.dueIn = EXT_PROG_REPEAT_INTERVAL]
                        ELSE IF repeat.armed
                        THEN [repeat EXCEPT !.dueIn = Monus(repeat.dueIn, d)]
                        ELSE repeat
           /\ pollQueued' = IF what = "poll" THEN FALSE ELSE pollDue
           /\ idleFor' = IF writes \/ what = "failed" THEN 0 ELSE idle
           /\ failure' = IF what = "failed"
                         THEN [reported |-> TRUE, command |-> pending,
                               error |-> "ResponseTimeout", sends |-> sends]
                         ELSE NoFailure
    /\ mq' = NoMq
    /\ UNCHANGED <<mqttVars, codecVars, transportVars, appVars, recvVars, provVars>>

SchedInit ==
    /\ args = StatusQueryInput
    /\ CodecStart
    /\ TransportStart
    /\ AppStart
    /\ SchedStart
    /\ RecvStart
    /\ ProvStart

SchedNext ==
    \/ handleCommand
    \/ onFrameReceived
    \/ tick

SpecSched == SchedInit /\ [][SchedNext]_vars

\* the scheduler with a collaborator that submits commands directly
TimerNext ==
    \/ submitCommand
    \/ onFrameReceived
    \/ tick

SpecTimer == SchedInit /\ [][TimerNext]_vars

\* the command handler alone, with any text on the command topic
TextNext == handleCommand_anyText

SpecCommandText == SchedInit /\ [][TextNext]_vars

----------------------------------------------------------------------------
(* MQTTHandler.h: connection and status publishing *)

\* mutant: publishing marks the status as stale
publishStatus_marksStale ==
    /\ published' = Published(connected, pumpStatus, remoteControlActive,
                              published)
    /\ pumpStatus' = [pumpStatus EXCEPT !.valid = FALSE]
    /\ UNCHANGED <<remoteControlActive, connected, schedState, pending,
                   pollQueued, busWrites, lastFrame, mq, timerVars,
                   codecVars, transportVars, appVars, recvVars, provVars>>

\* void MQTTHandler::publishStatus()
publishStatus ==
    /\ published' = Published(connected, pumpStatus, remoteControlActive,
                              published)
    /\ UNCHANGED <<pumpStatus, remoteControlActive, connected, schedState,
                   pending, pollQueued, busWrites, lastFrame, mq, timerVars,
                   codecVars, transportVars, appVars, recvVars, provVars>>

\* bool MQTTHandler::connect(): the broker accepts the connection or not
connect ==
    /\ \E accepted \in BOOLEAN :
        IF connected THEN UNCHANGED <<connected, published>>
        ELSE /\ connected' = accepted
             /\ published' = Published(accepted, pumpStatus,
                                       remoteControlActive, published)
    /\ UNCHANGED <<pumpStatus, remoteControlActive, schedState, pending,
                   pollQueued, busWrites, lastFrame, mq, timerVars,
                   codecVars, transportVars, appVars, recvVars, provVars>>

\* void MQTTHandler::loop() when no message waits in _mqtt.loop(): a
\* reconnect when disconnected and the reconnect interval has passed, then
\* a status publication when connected and the status interval has passed
loop ==
    /\ MqttEnabled
    /\ \E reconnectDue \in BOOLEAN, accepted \in BOOLEAN,
          publishDue \in BOOLEAN :
        LET reconnects == ~connected /\ reconnectDue
            isConnected == IF reconnects THEN accepted ELSE connected
            afterConnect == IF reconnects
                            THEN Published(accepted, pumpStatus,
                                           remoteControlActive, published)
                            ELSE published
        IN /\ connected' = isConnected
           /\ published' = IF isConnected /\ publishDue
                           THEN Published(TRUE, pumpStatus,
                                          remoteControlActive, afterConnect)
                           ELSE afterConnect
    /\ UNCHANGED <<pumpStatus, remoteControlActive, schedState, pending,
                   pollQueued, busWrites, lastFrame, mq, timerVars,
                   codecVars, transportVars, appVars, recvVars, provVars>>

\* the connection to the broker is lost
connectionLost ==
    /\ connected
    /\ connected' = FALSE
    /\ UNCHANGED <<pumpStatus, remoteControlActive, published, schedState,
                   pending, pollQueued, busWrites, lastFrame, mq, timerVars,
                   codecVars, transportVars, appVars, recvVars, provVars>>

\* remoteControlActive is declared extern: the controller, not the MQTT
\* handler, assigns it
controllerSetsRemote ==
    /\ \E b \in BOOLEAN :
        /\ b # remoteControlActive
        /\ remoteControlActive' = b
    /\ UNCHANGED <<pumpStatus, connected, published, schedState, pending,
                   pollQueued, busWrites, lastFrame, mq, timerVars,
                   codecVars, transportVars, appVars, recvVars, provVars>>

MqttNext ==
    \/ handleCommand
    \/ publishStatus
    \/ connect
    \/ loop
    \/ connectionLost
    \/ controllerSetsRemote
    \/ onFrameReceived

SpecMqtt == SchedInit /\ [][MqttNext]_vars

----------------------------------------------------------------------------
(* The stream reassembler in front of the scheduler.  The receive loop     *)
(* that calls pentairFindMessage, pentairPacketLength and                  *)
(* pentairVerifyChecksum (Controller.ino) is not among the sources; feed   *)
(* follows section 4.3 of the specification.                               *)

\* acc[from ..], from counted from 0
Drop(acc, from) == SubSeq(acc, from + 1, Len(acc))

\* bytes that cannot begin a frame any more are dropped: without a marker
\* only the last three bytes can still become one
Prune(acc) ==
    IF Len(acc) < PENTAIR_MIN_PKT_LEN THEN acc
    ELSE Drop(acc, Len(acc) - (PENTAIR_PREAMBLE_LEN - 1))

\* mutant: a candidate that fails its checksum is skipped whole
Resync_wholeCandidate(candidate, total) == Drop(candidate, total)

\* after a checksum failure scanning resumes one byte past the first byte
\* of the marker
Resync(candidate, total) == Drop(candidate, 1)

RECURSIVE Scan(_, _)
\* the loop of feed: (a) find the marker, (b) wait if fewer than the minimum
\* frame length follows, (c) wait if the declared length is not there yet,
\* else decode: emit and advance, or resynchronise
Scan(acc, out) ==
    LET i == pentairFindMessage(acc, Len(acc))
    IN IF i < 0 THEN [acc |-> Prune(acc), out |-> out]
       ELSE LET candidate == Drop(acc, i)
                avail == Len(candidate)
            IN IF avail < PENTAIR_MIN_PKT_LEN
               THEN [acc |-> candidate, out |-> out]
               ELSE LET total == pentairPacketLength(candidate)
                    IN IF avail < total
                       THEN [acc |-> candidate, out |-> out]
                       ELSE IF pentairVerifyChecksum(SubSeq(candidate, 1, total),
                                                     total)
                       THEN Scan(Drop(candidate, total),
                                 Append(out, SubSeq(candidate, 1, total)))
                       ELSE Scan(Resync(candidate, total), out)

\* the bytes of a stream in the order they are on the wire
Wire(stream) == stream.f1 \o stream.mid \o stream.f2

\* feed(newBytes): the next k bytes of the stream
feed ==
    /\ rsFed < Len(Wire(rsStream))
    /\ \E k \in 1..(Len(Wire(rsStream)) - rsFed) :
        LET newBytes == SubSeq(Wire(rsStream), rsFed + 1, rsFed + k)
            r == Scan(rsAcc \o newBytes, rsOut)
        IN /\ rsFed' = rsFed + k
           /\ rsAcc' = r.acc
           /\ rsOut' = r.out
    /\ UNCHANGED <<provVars, rsStream, probeVars, codecVars, transportVars, appVars,
                   schedVars>>

\* frames the pump sends to this controller
PumpFrames ==
    {pentairBuildPacket(ADDR_REMOTE_CONTROLLER, ADDR_PUMP_1, c.cmd, c.data,
                        Len(c.data)).buffer :
        c \in {Command(CMD_STATUS, <<>>), Command(CMD_RUN, <<RUN_START>>),
               Command(CMD_CTRL, <<CTRL_REMOTE>>)}}

\* what lies between two frames: nothing, the four marker bytes, the marker
\* twice, the marker and a byte, two bytes of line noise
Gaps ==
    {<<>>, PENTAIR_PREAMBLE, PENTAIR_PREAMBLE \o PENTAIR_PREAMBLE,
     PENTAIR_PREAMBLE \o <<0>>, <<255, 0>>}

Streams == [f1 : PumpFrames, mid : Gaps, f2 : PumpFrames]

ReasmInit ==
    /\ args = StatusQueryInput
    /\ CodecStart
    /\ TransportStart
    /\ AppStart
    /\ SchedStart
    /\ ProbeStart
    /\ ProvStart
    /\ rsStream \in Streams
    /\ rsFed = 0
    /\ rsAcc = <<>>
    /\ rsOut = <<>>

ReasmNext == feed

SpecReasm == ReasmInit /\ [][ReasmNext]_vars

----------------------------------------------------------------------------
(* SpecProbe: the receive helpers of PentairProtocol.h applied to a buffer *)

\* the checksum big-endian behind a body, as pentairBuildPacket stores it
Sealed(body) ==
    LET checksum == SumLoop(body, PKT_IDX_LEAD, Len(body), 0)
    IN body \o <<(checksum \div 256) % 256, checksum % 256>>

\* the same with the low checksum byte off by one
Missealed(body) ==
    LET checksum == SumLoop(body, PKT_IDX_LEAD, Len(body), 0)
    IN body \o <<(checksum \div 256) % 256, (checksum + 1) % 256>>

ProbeDataSample == {0, 1}
ProbeLenSample == 0..MaxProbeData \cup {UINT8_MAX}

\* marker, header and data; the length byte and the number of data bytes
\* that follow it are chosen independently
ProbeBodies ==
    {PENTAIR_PREAMBLE \o <<PENTAIR_VERSION, ADDR_REMOTE_CONTROLLER,
                           ADDR_PUMP_1, CMD_STATUS, l>> \o x :
        l \in ProbeLenSample,
        x \in UNION {[1..n -> ProbeDataSample] : n \in 0..MaxProbeData}}

ProbePieces ==
    {<<255>>, <<255, 0>>, <<255, 0, 255>>, PENTAIR_PREAMBLE, <<165>>,
     <<0, 0, 0, 0, 0, 0, 0>>}

RECURSIVE Pieced(_)
\* the buffers made of at most n pieces
Pieced(n) ==
    IF n = 0 THEN {<<>>}
    ELSE LET shorter == Pieced(n - 1)
         IN shorter \cup {b \o p : b \in shorter, p \in ProbePieces}

ProbeBuffers ==
    Pieced(MaxPieces)
        \cup {Sealed(b) : b \in ProbeBodies}
        \cup {Missealed(b) : b \in ProbeBodies}

ProbeInit ==
    /\ args = StatusQueryInput
    /\ CodecStart
    /\ TransportStart
    /\ AppStart
    /\ SchedStart
    /\ StreamStart
    /\ ProvStart
    /\ prBuffer \in ProbeBuffers
    /\ prLength \in 0..Len(prBuffer)
    /\ prOut = NoProbe

\* pentairFindMessage(prBuffer, prLength)
findMessage ==
    /\ prOut = NoProbe
    /\ prOut' = [op |-> "find",
                 found |-> pentairFindMessage(prBuffer, prLength),
                 valid |-> FALSE]
    /\ UNCHANGED <<provVars, prBuffer, prLength, streamVars, codecVars, transportVars,
                   appVars, schedVars>>

\* pentairVerifyChecksum(prBuffer, prLength)
verifyChecksum ==
    /\ prOut = NoProbe
    /\ prOut' = [op |-> "verify",
                 found |-> -1,
                 valid |-> pentairVerifyChecksum(prBuffer, prLength)]
    /\ UNCHANGED <<provVars, prBuffer, prLength, streamVars, codecVars, transportVars,
                   appVars, schedVars>>

ProbeNext == findMessage \/ verifyChecksum

SpecProbe == ProbeInit /\ [][ProbeNext]_vars

----------------------------------------------------------------------------
(* SpecCodec: build a packet, then one byte of it is altered on the wire *)

AddrSample == {ADDR_BROADCAST, ADDR_MAIN_CONTROLLER_1, ADDR_REMOTE_CONTROLLER,
               ADDR_PUMP_1, UINT8_MAX}
CmdSample == {CMD_WRITE_REG, CMD_STATUS, UINT8_MAX}
DataByteSample == {0, 165, UINT8_MAX}
AlterSample == {0, 1, 165, UINT8_MAX}

ShortData == UNION {[1..n -> DataByteSample] : n \in 0..MaxDataLen}
\* the longest payload a uint8_t dataLen admits, with the largest byte sum
LongData == [i \in 1..UINT8_MAX |-> UINT8_MAX]
\* payloads longer than a uint8_t dataLen can say
OversizeData == {[i \in 1..n |-> i % UINT8_MOD] : n \in {UINT8_MOD,
                                                          UINT8_MOD + 1}}

CodecInputs ==
    {[dst |-> d, src |-> s, cmd |-> c, data |-> x] :
        d \in AddrSample, s \in AddrSample, c \in CmdSample, x \in ShortData}
    \cup
    {[dst |-> d, src |-> UINT8_MAX, cmd |-> c, data |-> LongData] :
        d \in {ADDR_PUMP_1, UINT8_MAX}, c \in {CMD_STATUS, UINT8_MAX}}
    \cup
    {[dst |-> ADDR_PUMP_1, src |-> ADDR_REMOTE_CONTROLLER, cmd |-> CMD_STATUS,
      data |-> x] : x \in OversizeData}

CodecInit ==
    /\ args \in CodecInputs
    /\ CodecStart
    /\ TransportStart
    /\ AppStart
    /\ SchedStart
    /\ RecvStart
    /\ ProvStart

BuildPacket ==
    /\ cstate = "input"
    /\ LET r == pentairBuildPacket(args.dst, args.src, args.cmd,
                                   args.data, ToUint8(Len(args.data)))
       IN /\ buffer' = r.buffer
          /\ idx' = r.idx
    /\ cstate' = "built"
    /\ UNCHANGED <<args, altPos, transportVars, appVars, schedVars, recvVars, provVars>>

\* the environment replaces one byte of the packet by a different value
AlterByte ==
    /\ cstate = "built"
    /\ \E pos \in 0..(Len(buffer) - 1), val \in AlterSample :
        /\ val # At(buffer, pos)
        /\ buffer' = [buffer EXCEPT ![pos + 1] = val]
        /\ altPos' = pos
    /\ cstate' = "altered"
    /\ UNCHANGED <<args, idx, transportVars, appVars, schedVars, recvVars, provVars>>

CodecNext == BuildPacket \/ AlterByte

SpecCodec == CodecInit /\ [][CodecNext]_vars

----------------------------------------------------------------------------
(* Frame codec: properties *)

RECURSIVE ByteSum(_, _, _)
\* the arithmetic sum of packet[from .. to], both inclusive
ByteSum(packet, from, to) ==
    IF from > to THEN 0
    ELSE IF from = to THEN At(packet, from)
    ELSE LET mid == (from + to) \div 2
         IN ByteSum(packet, from, mid) + ByteSum(packet, mid + 1, to)

\* the 16-bit value held big-endian in the last two bytes of a packet
StoredChecksum(packet, length) ==
    At(packet, length - 2) * 256 + At(packet, length - 1)

\* C1: a packet written by pentairBuildPacket for (dst, src, cmd, data) with
\* n = |data| <= 255 has length 11 + n, pentairPacketLength gives 11 + n,
\* pentairVerifyChecksum accepts it, and its destination, source, command,
\* length and data bytes are the arguments.
C1_BuildRoundTrip ==
    (cstate = "built" /\ Len(args.data) <= UINT8_MAX) =>
        LET n == Len(args.data)
        IN /\ idx = 11 + n
           /\ Len(buffer) = 11 + n
           /\ pentairPacketLength(buffer) = 11 + n
           /\ pentairVerifyChecksum(buffer, idx)
           /\ At(buffer, PKT_IDX_DST) = args.dst
           /\ At(buffer, PKT_IDX_SRC) = args.src
           /\ At(buffer, PKT_IDX_CMD) = args.cmd
           /\ At(buffer, PKT_IDX_LEN) = n
           /\ \A i \in 0..(n - 1) : At(buffer, PKT_IDX_DATA + i) = args.data[i + 1]

\* C1 witness: a packet with the longest payload has been built
C1_Witness ==
    /\ cstate = "built"
    /\ Len(args.data) = UINT8_MAX
    /\ pentairVerifyChecksum(buffer, idx)

\* C2: the status query to pump 0x60 from remote 0x20 is encoded as the
\* 11 bytes FF 00 FF A5 00 60 20 07 00 01 2C, and 11 is returned.
C2_StatusQueryFrame ==
    (cstate = "built" /\ args = StatusQueryInput) =>
        /\ buffer = <<255, 0, 255, 165, 0, 96, 32, 7, 0, 1, 44>>
        /\ idx = 11

\* C2 witness: the status query has been encoded
C2_Witness ==
    /\ cstate = "built"
    /\ args = StatusQueryInput
    /\ Len(buffer) = 11

\* C3 as stated: altering any one byte outside the two checksum bytes makes
\* pentairVerifyChecksum over the same length fail.
C3_AnyByteDetected ==
    (cstate = "altered" /\ altPos < idx - 2) =>
        ~pentairVerifyChecksum(buffer, idx)

\* C3 amended: altering any one byte from the 0xA5 lead byte (index 3)
\* through the last data byte makes pentairVerifyChecksum over the same
\* length fail; the bytes FF 00 FF at indices 0..2 are not checksummed.
C3_SummedByteDetected ==
    (cstate = "altered" /\ altPos >= PKT_IDX_LEAD /\ altPos < idx - 2) =>
        ~pentairVerifyChecksum(buffer, idx)

\* C3 witness: the length byte of a packet was altered and the packet rejected
C3_Witness ==
    /\ cstate = "altered"
    /\ altPos = PKT_IDX_LEN
    /\ ~pentairVerifyChecksum(buffer, idx)

\* a packet the claim C4 speaks of: built, or accepted after an alteration
BuiltOrAccepted ==
    \/ cstate = "built"
    \/ cstate = "altered" /\ pentairVerifyChecksum(buffer, idx)

\* C4 as stated: the 16-bit checksum is the sum of the bytes from the
\* version byte (index 4) through the last data byte; no preamble byte and
\* no checksum byte is summed.
C4_SumFromVersion ==
    BuiltOrAccepted =>
        StoredChecksum(buffer, idx)
            = ByteSum(buffer, PKT_IDX_VER, idx - 3) % UINT16_MOD

\* C4 amended: the 16-bit checksum is the sum, modulo 2^16, of the bytes
\* from the 0xA5 lead byte (index 3, the last byte of the marker) through
\* the last data byte; FF 00 FF and the checksum bytes are not summed.
C4_SumFromLead ==
    BuiltOrAccepted =>
        StoredChecksum(buffer, idx)
            = ByteSum(buffer, PKT_IDX_LEAD, idx - 3) % UINT16_MOD

\* C4 witness: a packet with an altered FF/00 marker byte is still accepted
C4_Witness ==
    /\ cstate = "altered"
    /\ altPos < PKT_IDX_LEAD
    /\ pentairVerifyChecksum(buffer, idx)

----------------------------------------------------------------------------
(* Half-duplex transport: properties *)

\* the steps of one complete write, in order, with the DE/RE level after each
WriteSteps ==
    <<Step("DE_HIGH", "HIGH"),
      [op |-> "DELAY", de |-> "HIGH", us |-> RS485_PRE_TX_DELAY_US],
      Step("WRITE", "HIGH"),
      Step("FLUSH", "HIGH"),
      [op |-> "DELAY", de |-> "HIGH", us |-> RS485_POST_TX_DELAY_US],
      Step("DE_LOW", "LOW")>>

\* C5: every write drives DE/RE HIGH, waits the pre-transmit delay, writes
\* all bytes, flushes until the serial buffer is drained, waits the
\* post-transmit delay and drives DE/RE LOW, in this order; no byte is handed
\* to the serial port, waits in it or leaves it while DE/RE is LOW, and DE/RE
\* is LOW when write returns.
C5_WriteSequence ==
    /\ Len(steps) <= Len(WriteSteps)
    /\ steps = SubSeq(WriteSteps, 1, Len(steps))
    /\ uartTx # <<>> => de_re = "HIGH"
    /\ \A i \in DOMAIN lineLog : lineLog[i].de = "HIGH"
    /\ tpc = "w_return" =>
        /\ steps = WriteSteps
        /\ de_re = "LOW"
        /\ uartTx = <<>>
        /\ wret = Len(wdata)
        /\ [i \in DOMAIN lineLog |-> lineLog[i].byte] = wdata

\* C5 witness: a write of two bytes has returned
C5_Witness ==
    /\ tpc = "w_return"
    /\ Len(wdata) = 2
    /\ Len(lineLog) = 2
    /\ de_re = "LOW"

\* C6 as stated: a call of readBytes never blocks longer than
\* RS485_RX_TIMEOUT_MS, whatever arrives and whatever length is asked for.
C6_BlocksAtMostTimeout ==
    tpc = "r_return" => now <= RS485_RX_TIMEOUT_MS

\* C6 amended: readBytes never waits longer than RS485_RX_TIMEOUT_MS for the
\* next byte; the timeout restarts at every byte read, so a call that returns
\* n bytes of length asked has blocked at most min(n + 1, length) timeouts.
C6_BlocksAtMostTimeoutPerByte ==
    /\ tpc = "r_loop" => now - startTime <= RS485_RX_TIMEOUT_MS
    /\ tpc = "r_return" =>
        now <= Min(rret + 1, rlength) * RS485_RX_TIMEOUT_MS

\* C6 witness: a call has returned after blocking longer than the timeout
C6_Witness ==
    /\ tpc = "r_return"
    /\ rret >= 1
    /\ now > RS485_RX_TIMEOUT_MS

\* C7: readBytes returns n in 0..length with the first n bytes received in
\* buffer[0..n-1] in arrival order; n < length only when the timeout has
\* passed since the last byte read (or since the call began); the result is
\* the plain count of bytes read.
C7_ReadResult ==
    tpc = "r_return" =>
        /\ rret \in 0..rlength
        /\ rret = bytesRead
        /\ Len(rbuf) = rret
        /\ \A i \in 1..rret : rbuf[i] = rxBase + i
        /\ rret < rlength => now - lastRead >= RS485_RX_TIMEOUT_MS

\* C7 witness: a read of two bytes has returned both, and another one byte
C7_Witness ==
    /\ tpc = "r_return"
    /\ rlength = 2
    /\ rret = 1
    /\ rbuf = <<rxBase + 1>>

----------------------------------------------------------------------------
(* Application and console: properties *)

ConsoleWriter == "SerialCommandHandler::handleSendCommand"

\* a payload of an even, non-zero number of hex digits, at most 256 pairs
WellFormedHex(h) ==
    /\ Len(h) >= 2
    /\ Len(h) % 2 = 0
    /\ Len(h) \div 2 <= RS485_BUFFER_SIZE
    /\ \A i \in DOMAIN h : DigitValue(h[i]) >= 0

C9_ForeignFrameIgnored ==
    (/\ apc = "serial"
     /\ Len(rx_buffer_) >= PENTAIR_MIN_PKT_LEN
     /\ At(rx_buffer_, PKT_IDX_DST) \notin {ADDR_REMOTE_CONTROLLER, ADDR_BROADCAST})
        => rxTx = <<>>


----------------------------------------------------------------------------
(* Properties of the scheduler behind the MQTT bridge (SpecSched) *)

\* the last step handled an MQTT command message
Handled == mq.handled

\* ... and a request was in flight when the message arrived
HandledInFlight == Handled /\ mq.before.state = "AWAITING_RESPONSE"

\* index of the first submit of the message that met a request in flight
FirstInFlight == IF mq.before.state = "IDLE" THEN 2 ELSE 1

----------------------------------------------------------------------------
(* Scheduler timers: properties (SpecTimer) *)

\* the last step was a tick
Ticked == tk.ticked

\* ... that met a command in flight
TickedInFlight == Ticked /\ tk.before.state # "IDLE"

\* C11: when the timeout deadline (CMD_RESPONSE_TIMEOUT after the write) is
\* reached with no response, the same command is written again, once per
\* timeout, as long as it has been written fewer than 1 + RetryLimit times;
\* only then is it reported failed (ResponseTimeout), and a command leaves
\* the scheduler on a tick only together with that report.  Before the
\* deadline a tick leaves the command alone.
C11_RetryThenFail ==
    /\ TickedInFlight =>
          IF tk.d < tk.timeoutIn
          THEN /\ busWrites = 0
               /\ pending = tk.before.pending
               /\ schedState = tk.before.state
               /\ failure = NoFailure
          ELSE IF tk.sends < 1 + RetryLimit
          THEN /\ busWrites = 1
               /\ lastFrame = Encode(tk.before.pending)
               /\ pending = tk.before.pending
               /\ schedState = "RETRY"
               /\ sends = tk.sends + 1
               /\ timeoutIn = CMD_RESPONSE_TIMEOUT
               /\ failure = NoFailure
          ELSE /\ busWrites = 0
               /\ pending = NoPending
               /\ schedState = "IDLE"
               /\ failure.reported
               /\ failure.command = tk.before.pending
               /\ failure.error = "ResponseTimeout"
    /\ failure.reported => failure.sends = 1 + RetryLimit
    /\ schedState # "IDLE" => /\ pending # NoPending
                              /\ sends \in 1..(1 + RetryLimit)
                              /\ timeoutIn \in 1..CMD_RESPONSE_TIMEOUT

\* a command was reported failed after its last retry timed out
C11_Witness ==
    /\ TickedInFlight
    /\ tk.before.state = "RETRY"
    /\ failure.reported
    /\ failure.sends = 1 + RetryLimit
    /\ failure.command # NoPending

\* C12: once a command selecting an external program has succeeded the
\* repeat is armed; a tick that finds the bus idle and the repeat interval
\* (EXT_PROG_REPEAT_INTERVAL) over re-issues that same command exactly once
\* and re-arms the interval, and a status poll due at the same tick stays
\* queued behind it; a tick before the interval is over re-issues nothing.
C12_RepeatAfterInterval ==
    /\ (Ticked /\ tk.before.state = "IDLE" /\ tk.repeat.armed) =>
          IF tk.d >= tk.repeat.dueIn
          THEN /\ busWrites = 1
               /\ lastFrame = Encode(tk.repeat.command)
               /\ pending = tk.repeat.command
               /\ schedState = "AWAITING_RESPONSE"
               /\ repeat = [tk.repeat EXCEPT !.dueIn = EXT_PROG_REPEAT_INTERVAL]
               /\ tk.pollDue => pollQueued
          ELSE /\ busWrites = 1 => pending = Command(CMD_STATUS, <<>>)
               /\ repeat = [tk.repeat EXCEPT !.dueIn = tk.repeat.dueIn - tk.d]
    /\ repeat.armed => /\ SelectsExtProgram(repeat.command)
                       /\ repeat.dueIn \in 0..EXT_PROG_REPEAT_INTERVAL
    /\ (schedState = "IDLE" /\ ~Ticked /\ lastFrame # <<>>
        /\ \E c \in DirectCommands : SelectsExtProgram(c) /\ lastFrame = Encode(c)) =>
          /\ repeat.armed
          /\ lastFrame = Encode(repeat.command)

\* the external program was selected, then exactly the repeat interval
\* passed with nothing else happening: the command went out again, ahead of
\* the status poll due at the same tick
C12_Witness ==
    /\ Ticked
    /\ tk.before.state = "IDLE"
    /\ tk.repeat.armed
    /\ tk.repeat.dueIn = EXT_PROG_REPEAT_INTERVAL
    /\ tk.d = EXT_PROG_REPEAT_INTERVAL
    /\ tk.pollDue
    /\ busWrites = 1
    /\ pending = tk.repeat.command
    /\ pollQueued

----------------------------------------------------------------------------
(* Reassembler: properties (SpecReasm) *)

\* the whole stream has been fed
AllFed == rsFed = Len(Wire(rsStream))

\* the four marker bytes in the gap begin no checksum-valid frame
GapIsFalseMarker ==
    /\ rsStream.mid = PENTAIR_PREAMBLE
    /\ LET candidate == rsStream.mid \o rsStream.f2
       IN ~pentairVerifyChecksum(
              SubSeq(candidate, 1, pentairPacketLength(candidate)),
              pentairPacketLength(candidate))

\* C13: a valid frame, then the four bytes FF 00 FF A5 that begin no
\* checksum-valid frame, then a second valid frame: once all bytes are fed,
\* in whatever pieces, exactly the two frames have been emitted, in order,
\* and nothing is left in the buffer; before that the frames emitted are a
\* prefix of the two.
C13_TwoFramesAroundFalseMarker ==
    GapIsFalseMarker =>
        /\ rsOut \in {<<>>, <<rsStream.f1>>, <<rsStream.f1, rsStream.f2>>}
        /\ AllFed => /\ rsOut = <<rsStream.f1, rsStream.f2>>
                     /\ rsAcc = <<>>

\* the stream with the false marker has been fed to the end,
\* the second frame is a 12-byte one and both frames are out
C13_Witness ==
    /\ GapIsFalseMarker
    /\ AllFed
    /\ Len(rsStream.f2) = PENTAIR_MIN_PKT_LEN + 1
    /\ rsOut = <<rsStream.f1, rsStream.f2>>

----------------------------------------------------------------------------
(* Application::run and frames split across reads: properties (SpecApp) *)

RECURSIVE Flatten(_)
\* the packets one after the other
Flatten(packets) ==
    IF packets = <<>> THEN <<>>
    ELSE Head(packets) \o Flatten(Tail(packets))

\* every byte of the frame has been read by run()
FrameRead == busFrame # <<>> /\ busRest = <<>> /\ appRx = <<>>

----------------------------------------------------------------------------
(* Receive helpers: properties *)

Verified == prOut.op = "verify"
Searched == prOut.op = "find"

\* the buffer reaches as far as its length byte
HasLengthByte == prLength > PKT_IDX_LEN

\* the last two bytes of buffer[0 .. length-1] hold, big-endian, the sum
\* modulo 2^16 of the bytes from index 3 up to them
SumMatches(packet, length) ==
    StoredChecksum(packet, length)
        = ByteSum(packet, PKT_IDX_LEAD, length - 3) % UINT16_MOD

\* C15 as stated: for any length other than pentairPacketLength(packet),
\* pentairVerifyChecksum(packet, length) rejects the buffer.
C15_OtherLengthRejected ==
    (Verified /\ HasLengthByte
        /\ prLength # pentairPacketLength(prBuffer)) => ~prOut.valid

\* C15 amended: pentairVerifyChecksum(packet, length) accepts exactly when
\* length >= 11 and the last two bytes at that length hold the sum of the
\* bytes from index 3 up to them; the LEN byte is not read, so the length is
\* 4 + 5 + LEN + 2 only when the caller passes pentairPacketLength(packet).
C15_AcceptsBySumAlone ==
    Verified =>
        (prOut.valid <=> /\ prLength >= PENTAIR_MIN_PKT_LEN
                         /\ SumMatches(prBuffer, prLength))

\* C15 witness: a buffer whose LEN byte disagrees with the length passed
\* has been accepted
C15_Witness ==
    /\ Verified
    /\ HasLengthByte
    /\ prLength # pentairPacketLength(prBuffer)
    /\ prOut.valid

\* the marker FF 00 FF A5 is at buffer[i .. i+3]
MarkerAt(buf, i) == SubSeq(buf, i + 1, i + 4) = PENTAIR_PREAMBLE

\* the indexes below length at which a whole marker lies
MarkerIndexes(buf, length) == {i \in 0..(length - 4) : MarkerAt(buf, i)}

\* the smallest element of a non-empty set of indexes
Smallest(S) == CHOOSE i \in S : \A j \in S : i <= j

----------------------------------------------------------------------------
(* Frame codec: payload length *)

----------------------------------------------------------------------------
(* Frame codec: checksum width *)

\* the arithmetic sum of a built packet's bytes from 0xA5 through the last
\* data byte
SummedBytes == ByteSum(buffer, PKT_IDX_LEAD, idx - 3)

\* C17: for every packet pentairBuildPacket writes, also one whose byte sum
\* from 0xA5 through the last data byte exceeds 65535, the last two bytes
\* are the high and the low byte of that sum modulo 2^16, pentairChecksum
\* returns the sum modulo 2^16, and pentairVerifyChecksum accepts.
C17_SixteenBitSum ==
    cstate = "built" =>
        LET reduced == SummedBytes % UINT16_MOD
        IN /\ At(buffer, idx - 2) = reduced \div 256
           /\ At(buffer, idx - 1) = reduced % 256
           /\ pentairChecksum(buffer, idx) = reduced
           /\ pentairVerifyChecksum(buffer, idx)

\* C17 witness: a packet whose byte sum exceeds 65535 has been built and
\* is accepted
C17_Witness ==
    /\ cstate = "built"
    /\ SummedBytes > UINT16_MOD - 1
    /\ pentairChecksum(buffer, idx) = SummedBytes - UINT16_MOD
    /\ pentairVerifyChecksum(buffer, idx)

----------------------------------------------------------------------------
(* MQTT handler: the shared pump status *)

\* a step of one of the operations of MQTTHandler
MqttOperation == handleCommand \/ publishStatus \/ connect \/ loop

\* C18: no operation of MQTTHandler (handleCommand, publishStatus, connect,
\* loop) assigns a field of pumpStatus or remoteControlActive: a step that
\* changes either is a step of none of them; and what such an operation
\* hands to the broker is read from them as they are.
C18_StatusReadOnlyToMqtt ==
    [][/\ (pumpStatus' # pumpStatus
              \/ remoteControlActive' # remoteControlActive) => ~MqttOperation
       /\ published' # published =>
              \/ published'.json = StatusJson(pumpStatus, remoteControlActive)
              \/ ~MqttOperation
      ]_vars

\* C18 witness: a status stored from a pump response and the remote flag
\* set by the controller have been published by a command handled over
\* MQTT and are still in place
C18_Witness ==
    /\ mq.handled
    /\ pumpStatus.valid
    /\ remoteControlActive
    /\ published.sent
    /\ published.json = StatusJson(pumpStatus, remoteControlActive)

----------------------------------------------------------------------------
(* Application: the echo of received data *)

\* C20: with ECHO_MODE defined as 0, received RS-485 data is not echoed
\* back: no pass of Application::run transmits on the bus because bytes
\* have been received.
C20_NoEchoWhenZero ==
    (ECHO_MODE = 0 /\ apc = "serial") => rxTx = <<>>

----------------------------------------------------------------------------
(* Serial console: the send command *)

\* the bytes the digit pairs of a string of 2n hex digits denote
Denoted(hex) ==
    [i \in 1..(Len(hex) \div 2) |->
        16 * DigitValue(hex[2 * i - 1]) + DigitValue(hex[2 * i])]

\* a console line "send:" followed by 2n hex digits, 1 <= n <= 256
IsSendOfPairs(command) ==
    /\ command.kind = "send"
    /\ WellFormedHex(command.hex)

----------------------------------------------------------------------------
(* MQTT bridge: dispatch of the web UI's messages *)

\* the rpm values the web UI sends: slider and presets lie in 450..3450
WebUiRpm == {v \in RpmSample : v >= RPM_MIN /\ v <= RPM_MAX}

\* the messages sendCmd, setSpeed, fullStartCustom and setRPMOnly publish
WebUiMessages ==
    {CmdMsg(c) : c \in {"fullstop", "start", "stop", "remote", "local",
                        "query"}}
    \cup {CmdMsgWith("fullstart", "rpm", v) : v \in WebUiRpm}
    \cup {CmdMsgWith("rpm", "value", v) : v \in WebUiRpm}

\* the controller function that corresponds to a web UI message
Corresponding(msg) ==
    LET c == msg[3].v
    IN CASE c = "fullstart" -> Call("runFullSpeedSequence", msg[7].v)
         [] c = "fullstop" -> Call("runFullStopSequence", 0)
         [] c = "start" -> Call("sendRunPump", 1)
         [] c = "stop" -> Call("sendRunPump", 0)
         [] c = "rpm" -> Call("sendSetRPM", msg[7].v)
         [] c = "remote" -> Call("sendRemoteControl", 0)
         [] c = "local" -> Call("sendLocalControl", 0)
         [] c = "query" -> Call("sendStatusQuery", 0)

ControllerFunctions ==
    {"runFullSpeedSequence", "runFullStopSequence", "sendRunPump",
     "sendSetRPM", "sendRemoteControl", "sendLocalControl", "sendStatusQuery"}

\* C22: each of the eight messages the web UI publishes is dispatched by
\* handleCommand to its corresponding controller function and to no other,
\* and every message, from the web UI or not, triggers at most one
\* controller function.
C22_WebUiDispatch ==
    mq.handled =>
        /\ mq.msg \in WebUiMessages => mq.call = Corresponding(mq.msg)
        /\ mq.call = NoCall \/ mq.call.fn \in ControllerFunctions

\* C22 witness: the web UI's fullstart message, which also holds the word
\* rpm, has been dispatched to runFullSpeedSequence with its rpm
C22_Witness ==
    /\ mq.handled
    /\ mq.msg = CmdMsgWith("fullstart", "rpm", RPM_MAX)
    /\ mq.call = Call("runFullSpeedSequence", RPM_MAX)

----------------------------------------------------------------------------
(* WiFi provisioning: BLESetup.h, BLESetup_recovered.h, WiFiSetup.h *)

PREF_SSID == "wifi_ssid"
PREF_PASSWORD == "wifi_pass"
PREFS_KEY_SSID == "ssid"
PREFS_KEY_PASS == "pass"

\* the three classes; the two BLE headers define the same class name
Classes == {"BLESetup", "BLESetup_recovered", "WiFiSetup"}

BleClasses == {"BLESetup", "BLESetup_recovered"}

\* the keys each class reads and writes
SsidKey(class) == IF class = "BLESetup" THEN PREF_SSID ELSE PREFS_KEY_SSID

PassKey(class) == IF class = "BLESetup" THEN PREF_PASSWORD ELSE PREFS_KEY_PASS

\* Preferences::putString, getString with default "", remove, clear
putString(f, key, value) == [f EXCEPT ![key] = value]

getString(f, key) == IF f[key] = NoValue THEN "" ELSE f[key]

remove(f, key) == [f EXCEPT ![key] = NoValue]

clear(f) == EmptyFlash

Pair(ssid, pass) == [ssid |-> ssid, pass |-> pass]

hasSavedCredentials(class, f) == getString(f, SsidKey(class)) # ""

getSavedSSID(class, f) == getString(f, SsidKey(class))

StoredPair(class, f) ==
    Pair(getString(f, SsidKey(class)), getString(f, PassKey(class)))

saveCredentials(class, f, ssid, password) ==
    putString(putString(f, SsidKey(class), ssid), PassKey(class), password)

\* a clear that forgets the password and keeps the SSID
clearCredentials_passwordOnly(class, f) == remove(f, PassKey(class))

clearCredentials(class, f) ==
    IF class = "BLESetup"
    THEN remove(remove(f, PREF_SSID), PREF_PASSWORD)
    ELSE clear(f)

\* SSIDs and passwords a client or a browser sends
SsidSample == {"", "home", "cafe"}

PassSample == {"", "secret"}

\* the access points in range, each with the password it accepts
InRange == {Pair("home", "secret"), Pair("cafe", "")}

\* WiFi.status() after the wait loop: WL_CONNECTED is possible only for a
\* pair an access point in range accepts, and never certain
Reachable(pair) == IF pair \in InRange THEN BOOLEAN ELSE {FALSE}

\* credentials a previous provisioning left in flash
StoredAtBoot ==
    {EmptyFlash} \cup
    {saveCredentials(c, EmptyFlash, "old", "oldpass") : c \in Classes}

\* String::trim and String::equalsIgnoreCase on sequences of characters
IsSpace(ch) == ch \in {" ", "\t", "\n", "\r"}

RECURSIVE trimLeft(_)
trimLeft(s) ==
    IF s # <<>> /\ IsSpace(Head(s)) THEN trimLeft(Tail(s)) ELSE s

RECURSIVE trimRight(_)
trimRight(s) ==
    IF s # <<>> /\ IsSpace(s[Len(s)])
    THEN trimRight(SubSeq(s, 1, Len(s) - 1))
    ELSE s

trim(s) == trimRight(trimLeft(s))

toLowerCase(ch) ==
    CASE ch = "C" -> "c"
      [] ch = "O" -> "o"
      [] ch = "N" -> "n"
      [] ch = "E" -> "e"
      [] ch = "T" -> "t"
      [] ch = "S" -> "s"
      [] ch = "A" -> "a"
      [] OTHER -> ch

equalsIgnoreCase(a, b) ==
    /\ Len(a) = Len(b)
    /\ \A i \in 1..Len(a) : toLowerCase(a[i]) = toLowerCase(b[i])

CONNECT == <<"C", "O", "N", "N", "E", "C", "T">>

IsConnectCommand(val) == equalsIgnoreCase(trim(val), CONNECT)

\* values a client writes to the command characteristic
CommandSample ==
    {CONNECT,
     <<" ", "c", "o", "n", "n", "e", "c", "t", "\n">>,
     <<"C", "O", "N", "N", "E", "C", "T", "!">>,
     <<"S", "C", "A", "N">>}

\* JSON text as its tokens: quoted strings, colons, commas
Quoted(v) == [t |-> "str", v |-> v]

ColonTok == [t |-> "colon", v |-> ""]

CommaTok == [t |-> "comma", v |-> ""]

\* index of the first token of kind t from position from on, with value v
\* unless v is NoValue, or 0
RECURSIVE TokenFrom(_, _, _, _)
TokenFrom(json, from, t, v) ==
    IF from > Len(json) THEN 0
    ELSE IF json[from].t = t /\ (v = NoValue \/ json[from].v = v) THEN from
    ELSE TokenFrom(json, from + 1, t, v)

\* BLESetup_recovered.h extractJsonString: the quoted key, the next colon, the
\* next quoted string
extractJsonString(json, key) ==
    LET k == TokenFrom(json, 1, "str", key)
        c == IF k = 0 THEN 0 ELSE TokenFrom(json, k, "colon", NoValue)
        q == IF c = 0 THEN 0 ELSE TokenFrom(json, c + 1, "str", NoValue)
    IN IF q = 0 THEN "" ELSE json[q].v

WifiJson(ssid, pass) ==
    <<Quoted("ssid"), ColonTok, Quoted(ssid), CommaTok,
      Quoted("pass"), ColonTok, Quoted(pass)>>

\* values a client writes to the WiFi characteristic
WifiWriteSample ==
    {WifiJson(s, p) : s \in SsidSample, p \in PassSample} \cup
    {<<Quoted("pass"), ColonTok, Quoted("secret")>>}

\* setup() before the routine, and setup() again after the restart
InSetup == {"boot", "rebooted"}

\* the flag onDisconnect tests
Decided ==
    IF impl = "BLESetup" THEN credentialsReceived ELSE shouldRestart

\* ---- the static helpers, called by setup() before or after a routine ----

\* hasSavedCredentials() of one of the classes
CallHasSavedCredentials ==
    \E c \in Classes :
        /\ ppc \in InSetup
        /\ helper' = [fn |-> "hasSavedCredentials", class |-> c, result |-> hasSavedCredentials(c, flash), began |-> FALSE]
        /\ UNCHANGED <<flash, impl, ppc, bpc, timedOut, wifi, advertising,
                     bleOn, deviceConnected, charSSID, charPass, charStatus,
                     credentialsReceived, newSSID, newPassword, shouldRestart,
                     scanRequested, saved, http, linkVars>>

\* getSavedSSID() of one of the classes
CallGetSavedSSID ==
    \E c \in Classes :
        /\ ppc \in InSetup
        /\ helper' = [fn |-> "getSavedSSID", class |-> c, result |-> getSavedSSID(c, flash), began |-> FALSE]
        /\ UNCHANGED <<flash, impl, ppc, bpc, timedOut, wifi, advertising,
                     bleOn, deviceConnected, charSSID, charPass, charStatus,
                     credentialsReceived, newSSID, newPassword, shouldRestart,
                     scanRequested, saved, http, linkVars>>

\* connectSaved() of one of the classes: false before WiFi.begin when no SSID
\* is stored, otherwise WiFi.begin, the wait loop, and WiFi.disconnect on failure
CallConnectSaved ==
    \E c \in Classes : \E ok \in Reachable(StoredPair(c, flash)) :
        /\ ppc \in InSetup
        /\ IF ~hasSavedCredentials(c, flash)
           THEN /\ helper' = [fn |-> "connectSaved", class |-> c,
                              result |-> FALSE, began |-> FALSE]
                /\ UNCHANGED wifi
           ELSE /\ wifi' = [begun |-> StoredPair(c, flash),
                            status |-> IF ok THEN "WL_CONNECTED"
                                             ELSE "WL_DISCONNECTED"]
                /\ helper' = [fn |-> "connectSaved", class |-> c,
                              result |-> ok, began |-> TRUE]
        /\ UNCHANGED <<flash, impl, ppc, bpc, timedOut, advertising, bleOn,
                     deviceConnected, charSSID, charPass, charStatus,
                     credentialsReceived, newSSID, newPassword, shouldRestart,
                     scanRequested, saved, http, linkVars>>

\* clearCredentials() of one of the classes
CallClearCredentials ==
    \E c \in Classes :
        /\ ppc \in InSetup
        /\ flash' = clearCredentials(c, flash)
        /\ saved' = [by |-> c, op |-> "clear", pair |-> NoPair, attempt |-> wifi]
        /\ helper' = [fn |-> "clearCredentials", class |-> c, result |-> "none",
            began |-> FALSE]
        /\ UNCHANGED <<impl, ppc, bpc, timedOut, wifi, advertising, bleOn,
                     deviceConnected, charSSID, charPass, charStatus,
                     credentialsReceived, newSSID, newPassword, shouldRestart,
                     scanRequested, http, linkVars>>

\* ---- BLESetup.h runProvisioning, the main task ----

\* BLE initialised, characteristics created, advertising started
ble_start ==
    /\ ppc = "boot"
    /\ impl' = "BLESetup"
    /\ ppc' = "wait"
    /\ bleOn' = TRUE
    /\ advertising' = TRUE
    /\ charSSID' = ""
    /\ charPass' = ""
    /\ charStatus' = "READY"
    /\ helper' = NoHelper
    /\ saved' = NoSave
    /\ UNCHANGED <<flash, bpc, timedOut, wifi, deviceConnected,
                 credentialsReceived, newSSID, newPassword, shouldRestart,
                 scanRequested, http, linkVars>>

\* the wait loop without its time limit
ble_waitDone_credentialsOnly ==
    /\ impl = "BLESetup"
    /\ ppc = "wait"
    /\ credentialsReceived
    /\ ppc' = "stop"
    /\ UNCHANGED <<flash, impl, bpc, timedOut, wifi, advertising, bleOn,
                 deviceConnected, charSSID, charPass, charStatus,
                 credentialsReceived, newSSID, newPassword, shouldRestart,
                 scanRequested, helper, saved, http, linkVars>>

\* the wait loop ends: credentials received, or BLE_TIMEOUT_MS elapsed
ble_waitDone ==
    /\ impl = "BLESetup"
    /\ ppc = "wait"
    /\ credentialsReceived \/ timedOut
    /\ ppc' = "stop"
    /\ UNCHANGED <<flash, impl, bpc, timedOut, wifi, advertising, bleOn,
                 deviceConnected, charSSID, charPass, charStatus,
                 credentialsReceived, newSSID, newPassword, shouldRestart,
                 scanRequested, helper, saved, http, linkVars>>

\* BLEDevice::stopAdvertising()
ble_stopAdvertising ==
    /\ impl = "BLESetup"
    /\ ppc = "stop"
    /\ advertising' = FALSE
    /\ ppc' = "decide"
    /\ UNCHANGED <<flash, impl, bpc, timedOut, wifi, bleOn, deviceConnected,
                 charSSID, charPass, charStatus, credentialsReceived, newSSID,
                 newPassword, shouldRestart, scanRequested, helper, saved,
                 http, linkVars>>

\* if (_credentialsReceived), read again after the loop
ble_decide ==
    /\ impl = "BLESetup"
    /\ ppc = "decide"
    /\ ppc' = IF credentialsReceived THEN "begin" ELSE "deinit"
    /\ UNCHANGED <<flash, impl, bpc, timedOut, wifi, advertising, bleOn,
                 deviceConnected, charSSID, charPass, charStatus,
                 credentialsReceived, newSSID, newPassword, shouldRestart,
                 scanRequested, helper, saved, http, linkVars>>

\* WiFi.begin(_newSSID.c_str(), _newPassword.c_str())
ble_begin ==
    /\ impl = "BLESetup"
    /\ ppc = "begin"
    /\ wifi' = [begun |-> Pair(newSSID, newPassword), status |-> "WL_DISCONNECTED"]
    /\ ppc' = "poll"
    /\ UNCHANGED <<flash, impl, bpc, timedOut, advertising, bleOn,
                 deviceConnected, charSSID, charPass, charStatus,
                 credentialsReceived, newSSID, newPassword, shouldRestart,
                 scanRequested, helper, saved, http, linkVars>>

\* the wait loop on WiFi.status(), at most 20 rounds, and the test after it
ble_poll ==
    \E ok \in Reachable(wifi.begun) :
        /\ impl = "BLESetup"
        /\ ppc = "poll"
        /\ wifi' = [wifi EXCEPT !.status = IF ok THEN "WL_CONNECTED"
                                            ELSE "WL_DISCONNECTED"]
        /\ charStatus' = IF ok THEN "CONNECTED" ELSE "FAILED"
        /\ ppc' = IF ok THEN "save" ELSE "deinit"
        /\ UNCHANGED <<flash, impl, bpc, timedOut, advertising, bleOn,
                     deviceConnected, charSSID, charPass, credentialsReceived,
                     newSSID, newPassword, shouldRestart, scanRequested,
                     helper, saved, http, linkVars>>

\* after delay(2000): saveCredentials(_newSSID, _newPassword)
ble_save ==
    /\ impl = "BLESetup"
    /\ ppc = "save"
    /\ flash' = saveCredentials("BLESetup", flash, newSSID, newPassword)
    /\ saved' = [by |-> "BLESetup", op |-> "save",
        pair |-> Pair(newSSID, newPassword), attempt |-> wifi]
    /\ ppc' = "deinit"
    /\ UNCHANGED <<impl, bpc, timedOut, wifi, advertising, bleOn,
                 deviceConnected, charSSID, charPass, charStatus,
                 credentialsReceived, newSSID, newPassword, shouldRestart,
                 scanRequested, helper, http, linkVars>>

\* ---- BLESetup_recovered.h runProvisioning, the main task ----

\* BLE initialised, characteristics created, advertising started
rec_start ==
    /\ ppc = "boot"
    /\ impl' = "BLESetup_recovered"
    /\ ppc' = "wait"
    /\ bleOn' = TRUE
    /\ advertising' = TRUE
    /\ charStatus' = "ready"
    /\ helper' = NoHelper
    /\ saved' = NoSave
    /\ UNCHANGED <<flash, bpc, timedOut, wifi, deviceConnected, charSSID,
                 charPass, credentialsReceived, newSSID, newPassword,
                 shouldRestart, scanRequested, http, linkVars>>

\* the main loop ends: _shouldRestart, or BLE_TIMEOUT_MS elapsed
rec_loopDone ==
    /\ impl = "BLESetup_recovered"
    /\ ppc = "wait"
    /\ shouldRestart \/ timedOut
    /\ ppc' = "deinit"
    /\ UNCHANGED <<flash, impl, bpc, timedOut, wifi, advertising, bleOn,
                 deviceConnected, charSSID, charPass, charStatus,
                 credentialsReceived, newSSID, newPassword, shouldRestart,
                 scanRequested, helper, saved, http, linkVars>>

\* the loop body meets _credentialsReceived: handleCredentials() clears it
\* and reports that it connects
rec_handleCredentials ==
    /\ impl = "BLESetup_recovered"
    /\ ppc = "wait"
    /\ ~(shouldRestart \/ timedOut)
    /\ credentialsReceived
    /\ credentialsReceived' = FALSE
    /\ charStatus' = IF deviceConnected THEN "connecting" ELSE charStatus
    /\ ppc' = "begin"
    /\ UNCHANGED <<flash, impl, bpc, timedOut, wifi, advertising, bleOn,
                 deviceConnected, charSSID, charPass, newSSID, newPassword,
                 shouldRestart, scanRequested, helper, saved, http, linkVars>>

\* the loop body meets a scan request and no credentials: handleScanRequest()
rec_handleScanRequest ==
    /\ impl = "BLESetup_recovered"
    /\ ppc = "wait"
    /\ ~(shouldRestart \/ timedOut)
    /\ ~credentialsReceived
    /\ scanRequested
    /\ scanRequested' = FALSE
    /\ wifi' = [wifi EXCEPT !.status = "WL_DISCONNECTED"]
    /\ charStatus' = IF deviceConnected THEN "networks" ELSE charStatus
    /\ UNCHANGED <<flash, impl, ppc, bpc, timedOut, advertising, bleOn,
                 deviceConnected, charSSID, charPass, credentialsReceived,
                 newSSID, newPassword, shouldRestart, helper, saved, http,
                 linkVars>>

\* tryConnect(_receivedSSID, _receivedPass): WiFi.begin on the referenced
\* members
rec_begin ==
    /\ impl = "BLESetup_recovered"
    /\ ppc = "begin"
    /\ wifi' = [begun |-> Pair(newSSID, newPassword), status |-> "WL_DISCONNECTED"]
    /\ ppc' = "poll"
    /\ UNCHANGED <<flash, impl, bpc, timedOut, advertising, bleOn,
                 deviceConnected, charSSID, charPass, charStatus,
                 credentialsReceived, newSSID, newPassword, shouldRestart,
                 scanRequested, helper, saved, http, linkVars>>

\* tryConnect: the wait loop, at most 40 rounds, and its result; on failure
\* WiFi.disconnect() and the error status
rec_poll ==
    \E ok \in Reachable(wifi.begun) :
        /\ impl = "BLESetup_recovered"
        /\ ppc = "poll"
        /\ wifi' = [wifi EXCEPT !.status = IF ok THEN "WL_CONNECTED"
                                            ELSE "WL_DISCONNECTED"]
        /\ charStatus' = IF ok \/ ~deviceConnected THEN charStatus ELSE "error"
        /\ ppc' = IF ok THEN "save" ELSE "scan"
        /\ UNCHANGED <<flash, impl, bpc, timedOut, advertising, bleOn,
                     deviceConnected, charSSID, charPass, credentialsReceived,
                     newSSID, newPassword, shouldRestart, scanRequested,
                     helper, saved, http, linkVars>>

\* saveCredentials(_receivedSSID, _receivedPass) and the ok status
rec_save ==
    /\ impl = "BLESetup_recovered"
    /\ ppc = "save"
    /\ flash' = saveCredentials("BLESetup_recovered", flash, newSSID,
                       newPassword)
    /\ saved' = [by |-> "BLESetup_recovered", op |-> "save",
        pair |-> Pair(newSSID, newPassword), attempt |-> wifi]
    /\ charStatus' = IF deviceConnected THEN "ok" ELSE charStatus
    /\ ppc' = "flag"
    /\ UNCHANGED <<impl, bpc, timedOut, wifi, advertising, bleOn,
                 deviceConnected, charSSID, charPass, credentialsReceived,
                 newSSID, newPassword, shouldRestart, scanRequested, helper,
                 http, linkVars>>

\* after delay(2000): _shouldRestart = true
rec_shouldRestart ==
    /\ impl = "BLESetup_recovered"
    /\ ppc = "flag"
    /\ shouldRestart' = TRUE
    /\ ppc' = "scan"
    /\ UNCHANGED <<flash, impl, bpc, timedOut, wifi, advertising, bleOn,
                 deviceConnected, charSSID, charPass, charStatus,
                 credentialsReceived, newSSID, newPassword, scanRequested,
                 helper, saved, http, linkVars>>

\* the rest of the loop body after handleCredentials(): handleScanRequest()
\* when a scan was requested
rec_afterCredentials ==
    /\ impl = "BLESetup_recovered"
    /\ ppc = "scan"
    /\ scanRequested' = FALSE
    /\ wifi' = IF scanRequested THEN [wifi EXCEPT !.status = "WL_DISCONNECTED"]
       ELSE wifi
    /\ charStatus' = IF scanRequested /\ deviceConnected THEN "networks"
       ELSE charStatus
    /\ ppc' = "wait"
    /\ UNCHANGED <<flash, impl, bpc, timedOut, advertising, bleOn,
                 deviceConnected, charSSID, charPass, credentialsReceived,
                 newSSID, newPassword, shouldRestart, helper, saved, http,
                 linkVars>>

\* ---- both BLE routines: the end ----

\* BLEDevice::deinit(true): the BLE stack and its callbacks are gone
deinit ==
    /\ impl \in BleClasses
    /\ ppc = "deinit"
    /\ bleOn' = FALSE
    /\ advertising' = FALSE
    /\ deviceConnected' = FALSE
    /\ bpc' = NoCallback
    /\ ppc' = "restart"
    /\ UNCHANGED <<flash, impl, timedOut, wifi, charSSID, charPass,
                 charStatus, credentialsReceived, newSSID, newPassword,
                 shouldRestart, scanRequested, helper, saved, http, linkVars>>

\* ESP.restart(): setup() runs again, RAM is initial, flash is kept
restart ==
    /\ ppc = "restart"
    /\ impl' = "none"
    /\ ppc' = "rebooted"
    /\ timedOut' = FALSE
    /\ wifi' = WiFiOff
    /\ charSSID' = ""
    /\ charPass' = ""
    /\ charStatus' = ""
    /\ credentialsReceived' = FALSE
    /\ newSSID' = ""
    /\ newPassword' = ""
    /\ shouldRestart' = FALSE
    /\ scanRequested' = FALSE
    /\ UNCHANGED <<flash, bpc, advertising, bleOn, deviceConnected, helper,
                 saved, http, linkVars>>

\* BLE_TIMEOUT_MS elapses since the start of advertising
timePasses ==
    /\ impl \in BleClasses
    /\ ppc = "wait"
    /\ ~timedOut
    /\ timedOut' = TRUE
    /\ UNCHANGED <<flash, impl, ppc, bpc, wifi, advertising, bleOn,
                 deviceConnected, charSSID, charPass, charStatus,
                 credentialsReceived, newSSID, newPassword, shouldRestart,
                 scanRequested, helper, saved, http, linkVars>>

\* ---- the BLE task: server and characteristic callbacks ----

\* a client connects to the advertising server
onConnect ==
    /\ bleOn
    /\ advertising
    /\ ~deviceConnected
    /\ bpc = NoCallback
    /\ deviceConnected' = TRUE
    /\ advertising' = FALSE
    /\ UNCHANGED <<flash, impl, ppc, bpc, timedOut, wifi, bleOn, charSSID,
                 charPass, charStatus, credentialsReceived, newSSID,
                 newPassword, shouldRestart, scanRequested, helper, saved,
                 http, linkVars>>

\* onDisconnect without the test of the flag
onDisconnect_always ==
    /\ bleOn
    /\ deviceConnected
    /\ bpc = NoCallback
    /\ deviceConnected' = FALSE
    /\ advertising' = TRUE
    /\ UNCHANGED <<flash, impl, ppc, bpc, timedOut, wifi, bleOn, charSSID,
                 charPass, charStatus, credentialsReceived, newSSID,
                 newPassword, shouldRestart, scanRequested, helper, saved,
                 http, linkVars>>

\* the client disconnects: advertising restarts unless the flag is set
\* (_credentialsReceived in BLESetup.h, _shouldRestart in the recovered file)
onDisconnect ==
    /\ bleOn
    /\ deviceConnected
    /\ bpc = NoCallback
    /\ deviceConnected' = FALSE
    /\ advertising' = (~Decided \/ advertising)
    /\ UNCHANGED <<flash, impl, ppc, bpc, timedOut, wifi, bleOn, charSSID,
                 charPass, charStatus, credentialsReceived, newSSID,
                 newPassword, shouldRestart, scanRequested, helper, saved,
                 http, linkVars>>

\* the client writes the SSID characteristic (BLESetup.h, no callback)
writeSSID ==
    \E s \in SsidSample :
        /\ impl = "BLESetup"
        /\ bleOn
        /\ deviceConnected
        /\ bpc = NoCallback
        /\ charSSID' = s
        /\ UNCHANGED <<flash, impl, ppc, bpc, timedOut, wifi, advertising,
                     bleOn, deviceConnected, charPass, charStatus,
                     credentialsReceived, newSSID, newPassword, shouldRestart,
                     scanRequested, helper, saved, http, linkVars>>

\* the client writes the password characteristic (BLESetup.h, no callback)
writePassword ==
    \E p \in PassSample :
        /\ impl = "BLESetup"
        /\ bleOn
        /\ deviceConnected
        /\ bpc = NoCallback
        /\ charPass' = p
        /\ UNCHANGED <<flash, impl, ppc, bpc, timedOut, wifi, advertising,
                     bleOn, deviceConnected, charSSID, charStatus,
                     credentialsReceived, newSSID, newPassword, shouldRestart,
                     scanRequested, helper, saved, http, linkVars>>

\* CommandCallback::onWrite up to the assignments: on CONNECT, _newSSID and
\* _newPassword take the characteristics' values
onWrite ==
    \E val \in CommandSample :
        /\ impl = "BLESetup"
        /\ bleOn
        /\ deviceConnected
        /\ bpc = NoCallback
        /\ bpc' = [cb |-> "onWrite", val |-> val]
        /\ newSSID' = IF IsConnectCommand(val) THEN charSSID ELSE newSSID
        /\ newPassword' = IF IsConnectCommand(val) THEN charPass ELSE newPassword
        /\ UNCHANGED <<flash, impl, ppc, timedOut, wifi, advertising, bleOn,
                     deviceConnected, charSSID, charPass, charStatus,
                     credentialsReceived, shouldRestart, scanRequested,
                     helper, saved, http, linkVars>>

\* CommandCallback::onWrite from the test of _newSSID.length() on
onWrite_check ==
    /\ bleOn
    /\ bpc.cb = "onWrite"
    /\ bpc' = NoCallback
    /\ credentialsReceived' = (\/ credentialsReceived
        \/ (IsConnectCommand(bpc.val) /\ newSSID # ""))
    /\ charStatus' = IF ~IsConnectCommand(bpc.val) THEN charStatus
       ELSE IF newSSID # "" THEN "CONNECTING"
       ELSE "ERROR: Empty SSID"
    /\ UNCHANGED <<flash, impl, ppc, timedOut, wifi, advertising, bleOn,
                 deviceConnected, charSSID, charPass, newSSID, newPassword,
                 shouldRestart, scanRequested, helper, saved, http, linkVars>>

\* onWifiWrite up to the assignments of _receivedSSID and _receivedPass
onWifiWrite ==
    \E value \in WifiWriteSample :
        /\ impl = "BLESetup_recovered"
        /\ bleOn
        /\ deviceConnected
        /\ bpc = NoCallback
        /\ bpc' = [cb |-> "onWifiWrite", val |-> value]
        /\ newSSID' = extractJsonString(value, "ssid")
        /\ newPassword' = extractJsonString(value, "pass")
        /\ UNCHANGED <<flash, impl, ppc, timedOut, wifi, advertising, bleOn,
                     deviceConnected, charSSID, charPass, charStatus,
                     credentialsReceived, shouldRestart, scanRequested,
                     helper, saved, http, linkVars>>

\* onWifiWrite: _credentialsReceived = true
onWifiWrite_flag ==
    /\ bleOn
    /\ bpc.cb = "onWifiWrite"
    /\ bpc' = NoCallback
    /\ credentialsReceived' = TRUE
    /\ UNCHANGED <<flash, impl, ppc, timedOut, wifi, advertising, bleOn,
                 deviceConnected, charSSID, charPass, charStatus, newSSID,
                 newPassword, shouldRestart, scanRequested, helper, saved,
                 http, linkVars>>

\* onScanWrite: _scanRequested = true
onScanWrite ==
    /\ impl = "BLESetup_recovered"
    /\ bleOn
    /\ deviceConnected
    /\ bpc = NoCallback
    /\ ~scanRequested
    /\ scanRequested' = TRUE
    /\ UNCHANGED <<flash, impl, ppc, bpc, timedOut, wifi, advertising, bleOn,
                 deviceConnected, charSSID, charPass, charStatus,
                 credentialsReceived, newSSID, newPassword, shouldRestart,
                 helper, saved, http, linkVars>>

\* ---- WiFiSetup.h runSetupPortal ----

\* the access point and the web server are up
portal_start ==
    /\ ppc = "boot"
    /\ impl' = "WiFiSetup"
    /\ ppc' = "portal"
    /\ shouldRestart' = FALSE
    /\ helper' = NoHelper
    /\ saved' = NoSave
    /\ UNCHANGED <<flash, bpc, timedOut, wifi, advertising, bleOn,
                 deviceConnected, charSSID, charPass, charStatus,
                 credentialsReceived, newSSID, newPassword, scanRequested,
                 http, linkVars>>

\* handleClient() serves GET / or GET /scan
handleClient_page ==
    \E uri \in {"/", "/scan"} :
        /\ impl = "WiFiSetup"
        /\ ppc \in {"portal", "linger"}
        /\ http' = [uri |-> uri, ssid |-> "", code |-> 200, stored |-> FALSE]
        /\ UNCHANGED <<flash, impl, ppc, bpc, timedOut, wifi, advertising,
                     bleOn, deviceConnected, charSSID, charPass, charStatus,
                     credentialsReceived, newSSID, newPassword, shouldRestart,
                     scanRequested, helper, saved, linkVars>>

\* the handler of /save without the test of the SSID
handleClient_save_unchecked ==
    \E s \in SsidSample, p \in PassSample :
        /\ impl = "WiFiSetup"
        /\ ppc \in {"portal", "linger"}
        /\ http' = [uri |-> "/save", ssid |-> s, code |-> 200, stored |-> TRUE]
        /\ flash' = putString(putString(flash, PREFS_KEY_SSID, s), PREFS_KEY_PASS,
                     p)
        /\ saved' = [by |-> "WiFiSetup", op |-> "save", pair |-> Pair(s, p),
            attempt |-> wifi]
        /\ shouldRestart' = TRUE
        /\ UNCHANGED <<impl, ppc, bpc, timedOut, wifi, advertising, bleOn,
                     deviceConnected, charSSID, charPass, charStatus,
                     credentialsReceived, newSSID, newPassword, scanRequested,
                     helper, linkVars>>

\* handleClient() serves POST /save: 400 when the SSID is empty, otherwise the
\* pair is stored and shouldRestart is set
handleClient_save ==
    \E s \in SsidSample, p \in PassSample :
        /\ impl = "WiFiSetup"
        /\ ppc \in {"portal", "linger"}
        /\ http' = [uri |-> "/save", ssid |-> s,
            code |-> IF s = "" THEN 400 ELSE 200, stored |-> s # ""]
        /\ flash' = IF s = "" THEN flash
           ELSE putString(putString(flash, PREFS_KEY_SSID, s),
                          PREFS_KEY_PASS, p)
        /\ saved' = IF s = "" THEN saved
           ELSE [by |-> "WiFiSetup", op |-> "save", pair |-> Pair(s, p),
                 attempt |-> wifi]
        /\ shouldRestart' = (shouldRestart \/ s # "")
        /\ UNCHANGED <<impl, ppc, bpc, timedOut, wifi, advertising, bleOn,
                     deviceConnected, charSSID, charPass, charStatus,
                     credentialsReceived, newSSID, newPassword, scanRequested,
                     helper, linkVars>>

\* while (!shouldRestart) ends
portal_saved ==
    /\ impl = "WiFiSetup"
    /\ ppc = "portal"
    /\ shouldRestart
    /\ ppc' = "linger"
    /\ UNCHANGED <<flash, impl, bpc, timedOut, wifi, advertising, bleOn,
                 deviceConnected, charSSID, charPass, charStatus,
                 credentialsReceived, newSSID, newPassword, shouldRestart,
                 scanRequested, helper, saved, http, linkVars>>

\* the 3000 ms of handleClient() after the save are over
portal_lingerDone ==
    /\ impl = "WiFiSetup"
    /\ ppc = "linger"
    /\ ppc' = "restart"
    /\ UNCHANGED <<flash, impl, bpc, timedOut, wifi, advertising, bleOn,
                 deviceConnected, charSSID, charPass, charStatus,
                 credentialsReceived, newSSID, newPassword, shouldRestart,
                 scanRequested, helper, saved, http, linkVars>>

ProvNext ==
    \/ CallHasSavedCredentials
    \/ CallGetSavedSSID
    \/ CallConnectSaved
    \/ CallClearCredentials
    \/ ble_start
    \/ ble_waitDone
    \/ ble_stopAdvertising
    \/ ble_decide
    \/ ble_begin
    \/ ble_poll
    \/ ble_save
    \/ rec_start
    \/ rec_loopDone
    \/ rec_handleCredentials
    \/ rec_handleScanRequest
    \/ rec_begin
    \/ rec_poll
    \/ rec_save
    \/ rec_shouldRestart
    \/ rec_afterCredentials
    \/ deinit
    \/ restart
    \/ timePasses
    \/ onConnect
    \/ onDisconnect
    \/ writeSSID
    \/ writePassword
    \/ onWrite
    \/ onWrite_check
    \/ onWifiWrite
    \/ onWifiWrite_flag
    \/ onScanWrite
    \/ portal_start
    \/ handleClient_page
    \/ handleClient_save
    \/ portal_saved
    \/ portal_lingerDone

ProvInit ==
    /\ args = StatusQueryInput
    /\ CodecStart
    /\ TransportStart
    /\ AppStart
    /\ SchedStart
    /\ RecvStart
    /\ flash \in StoredAtBoot
    /\ ProvIdle

SpecProv == ProvInit /\ [][ProvNext]_vars

\* the steps of the main task inside a BLE routine
MainTask ==
    \/ ble_waitDone
    \/ ble_stopAdvertising
    \/ ble_decide
    \/ ble_begin
    \/ ble_poll
    \/ ble_save
    \/ rec_loopDone
    \/ rec_handleCredentials
    \/ rec_handleScanRequest
    \/ rec_begin
    \/ rec_poll
    \/ rec_save
    \/ rec_shouldRestart
    \/ rec_afterCredentials
    \/ deinit
    \/ restart

\* the callbacks the BLE task runs
BleTask ==
    \/ onConnect
    \/ onDisconnect
    \/ writeSSID
    \/ writePassword
    \/ onWrite
    \/ onWrite_check
    \/ onWifiWrite
    \/ onWifiWrite_flag
    \/ onScanWrite

BleNext ==
    \/ ble_start
    \/ rec_start
    \/ MainTask
    \/ BleTask
    \/ timePasses

\* the main task is never suspended for ever, and millis() keeps counting
\* whatever the main task is doing
SpecProvLive ==
    /\ SchedInit
    /\ [][BleNext]_vars
    /\ WF_vars(MainTask)
    /\ SF_vars(timePasses)

----------------------------------------------------------------------------
(* Properties: WiFi provisioning *)

\* a BLE provisioning routine is running
Provisioning == impl \in BleClasses

\* BLE is shut down and ESP.restart() has been called
RestartedWithBleOff == ppc = "rebooted" /\ ~bleOn /\ ~advertising

\* C23: BLE provisioning never stays active for ever: a routine that runs
\* ends in ESP.restart(), and once BLE_TIMEOUT_MS has elapsed since the start
\* of advertising, BLE is shut down and the device restarts.
C23_ProvisioningEnds ==
    /\ Provisioning ~> RestartedWithBleOff
    /\ (Provisioning /\ timedOut) ~> RestartedWithBleOff

\* the time limit has passed without a save, BLE is off, restart is next
C23_Witness ==
    /\ ppc = "restart"
    /\ timedOut
    /\ saved = NoSave
    /\ ~bleOn

\* the portal has stored a pair with a non-empty SSID, and flash holds it
PortalSaved ==
    /\ saved.by = "WiFiSetup"
    /\ saved.op = "save"
    /\ saved.pair.ssid # ""
    /\ StoredPair("WiFiSetup", flash) = saved.pair

\* a step in which the portal answers 400
Answers400 == http' # http /\ http'.code = 400

\* C24: runSetupPortal leaves its serving loop and restarts only after a
\* /save with a non-empty SSID has stored SSID and password; until then it
\* stays in the loop; a /save with an empty SSID is answered with 400, and
\* that step stores nothing and does not set the restart off.
C24_PortalRestartsOnlyAfterSave ==
    /\ [](impl = "WiFiSetup" /\ ppc # "portal" => PortalSaved)
    /\ [](http.code = 400 <=> (http.uri = "/save" /\ http.ssid = ""))
    /\ [][Answers400 => UNCHANGED <<flash, shouldRestart, ppc, saved>>]_vars

\* the portal is about to restart after a /save of "home"
C24_Witness ==
    /\ impl = "WiFiSetup"
    /\ ppc = "restart"
    /\ http.uri = "/save"
    /\ getSavedSSID("WiFiSetup", flash) = "home"

\* the portal has answered 400 and keeps serving, nothing stored
C24_Refused ==
    /\ impl = "WiFiSetup"
    /\ ppc = "portal"
    /\ http.code = 400
    /\ ~shouldRestart
    /\ flash = EmptyFlash

\* the helper called last belongs to the class that saved or cleared last
SameClass == helper.fn # "none" /\ helper.class = saved.by

\* C25: within each class, after a save with a non-empty SSID
\* hasSavedCredentials() is true and getSavedSSID() returns that SSID; after
\* clearCredentials() hasSavedCredentials() is false and connectSaved()
\* returns false without calling WiFi.begin.
C25_SavedThenCleared ==
    SameClass =>
        /\ (saved.op = "save" /\ saved.pair.ssid # "") =>
              /\ helper.fn = "hasSavedCredentials" => helper.result = TRUE
              /\ helper.fn = "getSavedSSID" =>
                     helper.result = saved.pair.ssid
        /\ saved.op = "clear" =>
              /\ helper.fn = "hasSavedCredentials" => helper.result = FALSE
              /\ helper.fn = "getSavedSSID" => helper.result = ""
              /\ helper.fn = "connectSaved" =>
                     helper.result = FALSE /\ ~helper.began

\* old credentials were in flash, the class cleared them, and its
\* connectSaved() has returned false
C25_Witness ==
    /\ SameClass
    /\ saved.op = "clear"
    /\ helper.fn = "connectSaved"
    /\ helper.result = FALSE
    /\ ppc = "boot"

\* a routine has saved "home", and getSavedSSID() of its class returns it
C25_SavedSeen ==
    /\ SameClass
    /\ saved.op = "save"
    /\ helper.fn = "getSavedSSID"
    /\ helper.result = "home"

\* a BLE routine has written credentials to flash
BleSaved == saved.op = "save" /\ saved.by \in BleClasses

\* C26: the pair a BLE routine saves to flash is exactly the pair it passed
\* to the WiFi.begin call that reached WL_CONNECTED, whatever the client
\* writes while the main task waits for the connection.
C26_SavedPairIsConnectedPair ==
    BleSaved =>
        /\ saved.attempt.status = "WL_CONNECTED"
        /\ saved.pair = saved.attempt.begun

\* the same for BLESetup.h alone
C26_SavedPairIsConnectedPair_BLESetup ==
    saved.by = "BLESetup" => C26_SavedPairIsConnectedPair

\* the same for BLESetup_recovered.h alone
C26_SavedPairIsConnectedPair_recovered ==
    saved.by = "BLESetup_recovered" => C26_SavedPairIsConnectedPair

\* a step of a BLE routine that changes the stored credentials
BleWritesFlash == Provisioning /\ flash' # flash

\* C27: a BLE routine writes credentials to flash only after a connection
\* attempt with those credentials has reached WL_CONNECTED; a failed attempt
\* or the time-out leaves flash as it was.
C27_FlashOnlyAfterConnected ==
    [][BleWritesFlash =>
          /\ wifi.status = "WL_CONNECTED"
          /\ StoredPair(impl, flash') = wifi.begun]_vars

\* the part that holds: no write to flash without WL_CONNECTED
C27_NoWriteUnlessConnected ==
    [][BleWritesFlash => wifi.status = "WL_CONNECTED"]_vars

\* a step of BLESetup.h in which _credentialsReceived becomes true
FlagRaised ==
    impl = "BLESetup" /\ ~credentialsReceived /\ credentialsReceived'

\* a step that ends onWrite for a CONNECT command with an empty SSID
\* characteristic
ConnectWithoutSSID ==
    /\ bpc.cb = "onWrite"
    /\ bpc' = NoCallback
    /\ bleOn'
    /\ IsConnectCommand(bpc.val)
    /\ charSSID = ""

\* the parts that hold: the flag is raised only by a CONNECT command while
\* the SSID characteristic is non-empty, and a CONNECT with an empty SSID
\* characteristic sets the error status and raises no flag
C28_FlagOnlyOnConnect ==
    /\ [][FlagRaised =>
             /\ bpc.cb = "onWrite"
             /\ IsConnectCommand(bpc.val)
             /\ charSSID # ""]_vars
    /\ [][ConnectWithoutSSID =>
             /\ charStatus' = "ERROR: Empty SSID"
             /\ UNCHANGED credentialsReceived]_vars

\* C28: in BLESetup.h a WiFi connection attempt is started only with a
\* non-empty SSID: the flag is raised only by a CONNECT command (trimmed,
\* any case) while the SSID characteristic is non-empty, an empty SSID gives
\* the status "ERROR: Empty SSID", and the SSID given to WiFi.begin is
\* non-empty whatever the client writes meanwhile.
C28_AttemptOnlyWithSSID ==
    /\ C28_FlagOnlyOnConnect
    /\ [](impl = "BLESetup" /\ wifi.begun # NoPair => wifi.begun.ssid # "")

\* a step in which onDisconnect runs
Disconnects == deviceConnected /\ ~deviceConnected' /\ bleOn'

\* C29: when the client disconnects during provisioning, advertising is
\* restarted if and only if the flag is not yet set: _credentialsReceived in
\* BLESetup.h, _shouldRestart in BLESetup_recovered.h.
C29_ReadvertiseUnlessDecided ==
    [][Disconnects => (~advertising /\ (advertising' <=> ~Decided))]_vars

\* the client of BLESetup.h wrote an SSID and disconnected before any
\* CONNECT: the server advertises again
C29_Witness ==
    /\ impl = "BLESetup"
    /\ bleOn
    /\ ~deviceConnected
    /\ advertising
    /\ charSSID = "home"
    /\ ~credentialsReceived

\* the client of BLESetup.h disconnected after its CONNECT was accepted:
\* no advertising
C29_Decided ==
    /\ impl = "BLESetup"
    /\ bleOn
    /\ ~deviceConnected
    /\ ~advertising
    /\ credentialsReceived
    /\ ppc = "wait"

\* the client of the recovered routine disconnected after a failed attempt:
\* the server advertises again
C29_RecoveredAgain ==
    /\ impl = "BLESetup_recovered"
    /\ bleOn
    /\ ~deviceConnected
    /\ advertising
    /\ wifi.begun # NoPair

\* C30: credentials saved by one class are found by the helpers of every
\* class, and clearCredentials() of every class leaves no class with saved
\* credentials.
C30_SharedAcrossClasses ==
    /\ (saved.op = "save" /\ saved.pair.ssid # "") =>
          \A c \in Classes :
              /\ hasSavedCredentials(c, flash)
              /\ StoredPair(c, flash) = saved.pair
    /\ saved.op = "clear" =>
          \A c \in Classes : ~hasSavedCredentials(c, flash)

\* the part that holds: WiFiSetup.h and BLESetup_recovered.h share their
\* keys, and their clearCredentials() empties the namespace
C30_SharedByTwo ==
    /\ (saved.op = "save" /\ saved.pair.ssid # "" /\ saved.by # "BLESetup") =>
          \A c \in Classes \ {"BLESetup"} :
              /\ hasSavedCredentials(c, flash)
              /\ StoredPair(c, flash) = saved.pair
    /\ (saved.op = "clear" /\ saved.by # "BLESetup") =>
          \A c \in Classes : ~hasSavedCredentials(c, flash)

----------------------------------------------------------------------------
(* Properties: the rpm values of MQTT command messages *)

RpmCalls == {"runFullSpeedSequence", "sendSetRPM"}

RpmRange == RPM_MIN..RPM_MAX

\* a fullstart or rpm message: {"cmd":"fullstart"..} or {"cmd":"rpm"..}
IsRpmMessage(msg) == msg[3].v \in {"fullstart", "rpm"}

\* the token after the colon of the message's value key, Raw(<<>>) if the
\* message has none
StatedValue(msg) == IF Len(msg) >= 7 THEN msg[7] ELSE Raw(<<>>)

\* the characters are a JSON number: an optional minus, digits, and
\* optionally a point and digits
IsNumber(chars) ==
    LET from == IF chars # <<>> /\ chars[1] = "-" THEN 2 ELSE 1
        points == {i \in from..Len(chars) : chars[i] = "."}
    IN /\ from <= Len(chars)
       /\ \A i \in from..Len(chars) : isdigit(chars[i]) \/ chars[i] = "."
       /\ Cardinality(points) <= 1
       /\ \A i \in points : i > from /\ i < Len(chars)

\* a JSON number lies in 450..3450: it is not negative, its integer part is
\* in the range, and at 3450 its fraction is zero
NumberInRange(chars) ==
    LET whole == Magnitude(chars, 1, 0)
        points == {i \in 1..Len(chars) : chars[i] = "."}
        fraction == {i \in 1..Len(chars) : \E p \in points : i > p}
    IN /\ chars[1] # "-"
       /\ ~whole.over
       /\ whole.v \in RpmRange
       /\ whole.v = RPM_MAX => \A i \in fraction : chars[i] = "0"

\* the value of the message is present, numeric and in 450..3450
ValueInRange(msg) ==
    LET tok == StatedValue(msg)
    IN \/ tok.t = "num" /\ tok.v \in RpmRange
       \/ tok.t = "raw" /\ IsNumber(tok.v) /\ NumberInRange(tok.v)

\* the integer the value begins with, 0 if it begins with none
LeadingInteger(msg) ==
    LET tok == StatedValue(msg)
    IN IF tok.t = "num" THEN tok.v
       ELSE IF tok.t = "raw" THEN toInt(tok.v)
       ELSE 0

\* runFullSpeedSequence and sendSetRPM are invoked only with an rpm in
\* 450..3450
RpmCallsInRange ==
    (mq.handled /\ mq.call.fn \in RpmCalls) => mq.call.arg \in RpmRange

\* C31 as stated: for every MQTT command message, runFullSpeedSequence and
\* sendSetRPM are invoked only with an rpm in 450..3450, and a fullstart or
\* rpm message whose value is missing, not numeric or out of that range
\* invokes no pump command.
C31_BadValueInvokesNothing ==
    /\ RpmCallsInRange
    /\ (mq.handled /\ IsRpmMessage(mq.msg) /\ ~ValueInRange(mq.msg)) =>
           mq.call = NoCall

\* C31 as the code has it: runFullSpeedSequence and sendSetRPM are invoked
\* only with an rpm in 450..3450, and a fullstart or rpm message invokes its
\* pump command, with the integer its value begins with, exactly when that
\* integer is in 450..3450; what follows the integer is not looked at.
C31_LeadingIntegerDecides ==
    /\ RpmCallsInRange
    /\ (mq.handled /\ IsRpmMessage(mq.msg)) =>
           IF LeadingInteger(mq.msg) \in RpmRange
           THEN /\ mq.call.fn \in RpmCalls
                /\ mq.call.arg = LeadingInteger(mq.msg)
           ELSE mq.call = NoCall

\* the rpm message with the value 3450.9 has invoked sendSetRPM(3450)
C31_Witness ==
    /\ mq.handled
    /\ mq.msg = CmdMsgText("rpm", "value",
                           Raw(<<"3", "4", "5", "0", ".", "9">>))
    /\ mq.call = Call("sendSetRPM", RPM_MAX)

\* the fullstart message with the value 4294969296 has invoked nothing
C31_HugeValueRefused ==
    /\ mq.handled
    /\ mq.msg = CmdMsgText("fullstart", "rpm",
              Raw(<<"4", "2", "9", "4", "9", "6", "9", "2", "9", "6">>))
    /\ mq.call = NoCall

============================================================================
